---- MODULE Spec2Model ----
(***************************************************************************)
(* Streaming strategy instances of btc_trading_bot.                        *)
(*                                                                         *)
(* One strategy instance is one object: its fields are the VARIABLES of    *)
(* this module (fields a class does not have keep their initial value).    *)
(* Every class has its own initial predicate, its own tick handler and its *)
(* own specification (SpecSurge, SpecBreakout, ...); the tick handler is    *)
(* one action that runs the whole update()/execute_trade() call.           *)
(*                                                                         *)
(* Units.  Money is counted in cents, prices in whole dollars, rates (fee  *)
(* rates, profit targets, stop losses given as fractions) in 1/RateScale,  *)
(* percentages in 1/PctScale of a percent.  Products a*b/c are computed by *)
(* MulDiv, which rounds down to the unit (the code computes in binary      *)
(* floating point and rounds to the nearest double).  Threshold tests are  *)
(* cross-multiplied, so they are decided exactly.                          *)
(*                                                                         *)
(* Indicators.  EMA, MACD, RSI, volume averages and support/resistance     *)
(* levels are functions of the whole tick history; the handlers read only  *)
(* a few comparisons of their latest values.  Those comparisons are inputs *)
(* of the tick (drawn with \E), the length of the history is kept.         *)
(***************************************************************************)
EXTENDS Integers, Sequences, FiniteSets, TLC

VARIABLES
    cls,                \* the class of the instance; never changes
    price_len,          \* len(self.price_data) / len(self.prices), capped at the class's warm-up
    prev_price,         \* the price appended by the previous tick (price_data[-2] at the next one)
    position,           \* 0 flat, 1 long, -1 short (strategies.BaseStrategy: signed notional)
    position_size,      \* quantity held, in 1/SizeScale cents per dollar of price
    entry_price,
    current_capital,    \* update()/close_position() classes, cents
    portfolio_value,    \* ledger-keeping classes, cents
    daily_loss,         \* cents
    last_reset_day,
    consecutive_losses,
    consecutive_signals, \* MegaTrendStrategy: the entry signals counted so far
    total_trades,
    winning_trades,
    total_pnl,
    total_fees,
    max_drawdown,       \* strategies.BaseStrategy: performance_metrics['max_drawdown'], whole %
    trades,             \* the ledger: a sequence of trade records
    highest_price,
    lowest_price,
    stop_loss,          \* strategies.BaseStrategy: absolute stop price of the open position
    take_profit,        \* strategies.BaseStrategy: absolute target price of the open position
    last_trade_time,    \* seconds
    now,                \* the wall clock (datetime.now()), seconds since the epoch of the model
    tick,               \* the input of the last handler call
    day_pnl,            \* history: the calendar day of the last call and the net PnL settled on it
    calls,              \* HyperliquidClient / StrategyManager: the calls made so far, in order
    pc,                 \* StrategyManager.run: where the call stands ("-" for a strategy instance)
    book,               \* StrategyManager: portfolio_value - initial_capital of each strategy;
                        \* HyperliquidAPI: self.trades, the feed trades received
    order_blocks,       \* OrderBlockStrategy: the blocks found, oldest first
    callbacks           \* HyperliquidClient: the registered callbacks, in registration order

vars == <<cls, price_len, prev_price, position, position_size, entry_price, current_capital,
          portfolio_value, daily_loss, last_reset_day, consecutive_losses, total_trades,
          consecutive_signals, winning_trades, total_pnl, total_fees, max_drawdown, trades,
          highest_price,
          lowest_price, stop_loss, take_profit, last_trade_time, now, tick, day_pnl, calls, pc, book,
          order_blocks, callbacks>>

----------------------------------------------------------------------------
(* Bounds of the model *)

\* An instance opens a position only while it has closed fewer than <Class>MaxTrades
\* positions, and its wall clock does not pass the end of day <Class>MaxDay.
SurgeMaxTrades == 4
SurgeMaxDay == 3
BreakoutMaxTrades == 4
BreakoutMaxDay == 1
BidirMaxTrades == 1
BaseMaxTrades == 2
TrendMaxTrades == 2
MACDMaxTrades == 2
MACDMaxDay == 1
RSIBMaxTrades == 1
RSIBMaxDay == 1
OBMaxTrades == 1
OBMaxDay == 1
\* A tick finds a new order block only while fewer than OBMaxBlocks are listed.
OBMaxBlocks == 1
\* StrategyManager.run is called with a duration of ManagerDuration polls, and
\* the feed delivers at most ManagerMaxMessages messages.
ManagerDuration == 2
ManagerMaxMessages == 1
\* A VolumeStrategy opens at most VolMaxTrades positions, on ticks stamped up to VolMaxTime.
VolMaxTrades == 2
VolMaxTime == 12
\* The feed delivers at most ConnectMaxMessages messages while run() starts.
ConnectMaxMessages == 2
\* A VolumeProfileStrategy is built with volume_period = ProfilePeriod and
\* price_levels = ProfileLevels.
ProfilePeriod == 3
ProfileLevels == 4
\* group_levels is called with at most GroupMaxLevels levels.
GroupMaxLevels == 3
\* A MegaTrendStrategy closes at most MegaMaxTrades positions and is called while
\* consecutive_signals is at most MegaMaxSignals.
MegaMaxTrades == 1
MegaMaxSignals == 3
\* HyperliquidAPI.run polls for RunBotDuration minutes and receives at most
\* RunBotMaxFeed feed trades.
RunBotDuration == 6
RunBotMaxFeed == 2

----------------------------------------------------------------------------
(* Units and arithmetic *)

RateScale == 10000
PctScale == 100
SizeScale == 10000
SecondsPerDay == 86400

Abs(x) == IF x < 0 THEN -x ELSE x

Max(a, b) == IF a >= b THEN a ELSE b

Min(a, b) == IF a <= b THEN a ELSE b

\* a * b / c rounded down, for c > 0, without forming the product a * b
MulDiv(a, b, c) == (a \div c) * b + ((a % c) * b) \div c

\* datetime.now().date()
Date(t) == t \div SecondsPerDay

\* the instance, as a record of its fields
Self ==
    [ price_len |-> price_len, prev_price |-> prev_price, position |-> position,
      position_size |-> position_size, entry_price |-> entry_price,
      current_capital |-> current_capital, portfolio_value |-> portfolio_value,
      daily_loss |-> daily_loss, last_reset_day |-> last_reset_day,
      consecutive_losses |-> consecutive_losses, total_trades |-> total_trades,
      winning_trades |-> winning_trades, total_pnl |-> total_pnl,
      total_fees |-> total_fees, max_drawdown |-> max_drawdown,
      consecutive_signals |-> consecutive_signals, trades |-> trades, highest_price |-> highest_price,
      lowest_price |-> lowest_price, stop_loss |-> stop_loss, take_profit |-> take_profit,
      last_trade_time |-> last_trade_time ]

\* the fields of the instance after a handler call that left it as record s
Assigns(s) ==
    /\ price_len' = s.price_len
    /\ prev_price' = s.prev_price
    /\ position' = s.position
    /\ position_size' = s.position_size
    /\ entry_price' = s.entry_price
    /\ current_capital' = s.current_capital
    /\ portfolio_value' = s.portfolio_value
    /\ daily_loss' = s.daily_loss
    /\ last_reset_day' = s.last_reset_day
    /\ consecutive_losses' = s.consecutive_losses
    /\ total_trades' = s.total_trades
    /\ winning_trades' = s.winning_trades
    /\ total_pnl' = s.total_pnl
    /\ total_fees' = s.total_fees
    /\ max_drawdown' = s.max_drawdown
    /\ consecutive_signals' = s.consecutive_signals
    /\ trades' = s.trades
    /\ highest_price' = s.highest_price
    /\ lowest_price' = s.lowest_price
    /\ stop_loss' = s.stop_loss
    /\ take_profit' = s.take_profit
    /\ last_trade_time' = s.last_trade_time
    /\ day_pnl' = [day |-> Date(now'),
                   pnl |-> (IF Date(now') = day_pnl.day THEN day_pnl.pnl ELSE 0)
                           + (s.total_pnl - total_pnl)]

\* a handler call of a strategy instance: nothing but the instance changes
Becomes(s) == Assigns(s) /\ UNCHANGED <<calls, pc, book, order_blocks, callbacks>>

\* the fields of an instance that was just constructed as record s
Starts(s) ==
    /\ price_len = s.price_len
    /\ prev_price = s.prev_price
    /\ position = s.position
    /\ position_size = s.position_size
    /\ entry_price = s.entry_price
    /\ current_capital = s.current_capital
    /\ portfolio_value = s.portfolio_value
    /\ daily_loss = s.daily_loss
    /\ last_reset_day = s.last_reset_day
    /\ consecutive_losses = s.consecutive_losses
    /\ total_trades = s.total_trades
    /\ winning_trades = s.winning_trades
    /\ total_pnl = s.total_pnl
    /\ total_fees = s.total_fees
    /\ max_drawdown = s.max_drawdown
    /\ consecutive_signals = s.consecutive_signals
    /\ trades = s.trades
    /\ highest_price = s.highest_price
    /\ lowest_price = s.lowest_price
    /\ stop_loss = s.stop_loss
    /\ take_profit = s.take_profit
    /\ last_trade_time = s.last_trade_time
    /\ day_pnl = [day |-> s.last_reset_day, pnl |-> 0]
    /\ calls = <<>>
    /\ pc = "-"
    /\ book = <<>>
    /\ order_blocks = <<>>
    /\ callbacks = <<>>

\* float('inf')
Infinity == 1000000000

\* a freshly constructed instance with the given capital, constructed at time t
Fresh(capital, t) ==
    [ price_len |-> 0, prev_price |-> 0, position |-> 0, position_size |-> 0,
      entry_price |-> 0, current_capital |-> capital, portfolio_value |-> capital,
      daily_loss |-> 0, last_reset_day |-> Date(t), consecutive_losses |-> 0,
      total_trades |-> 0, winning_trades |-> 0, total_pnl |-> 0, total_fees |-> 0,
      max_drawdown |-> 0, consecutive_signals |-> 0, trades |-> <<>>, highest_price |-> 0, lowest_price |-> Infinity,
      stop_loss |-> 0, take_profit |-> 0, last_trade_time |-> t ]

\* the steps by which the wall clock advances between two ticks
ClockSteps == {0, SecondsPerDay}

----------------------------------------------------------------------------
(* VolumeSurgeStrategy (volume_surge_strategy.py); OrderBlockStrategy and  *)
(* MomentumDivergenceStrategy have the same update/enter/close structure.  *)

SurgeInitialCapital == 20000
SurgeLeverage == 50
SurgeProfitTarget == 20
SurgeStopLoss == -8
SurgeMakerFee == -2
SurgeTakerFee == 5
SurgeMinPriceMove == 5
SurgeWarmup == 20
SurgeMaxDailyLoss == SurgeInitialCapital \div 10
SurgePrices == {9990, 10000, 10020}

\* detect_price_direction: the move from price_data[-2] to price_data[-1]
SurgeDirection(s, price) ==
    IF s.price_len < 3 THEN "NONE"
    ELSE IF Abs(price - s.prev_price) * RateScale < SurgeMinPriceMove * s.prev_price THEN "NONE"
    ELSE IF price > s.prev_price THEN "UP" ELSE "DOWN"

\* enter_position: 20% of capital, leveraged; no exception path for price > 0
SurgeEnterPosition(s, price, side, t) ==
    IF s.position # 0 THEN s
    ELSE LET position_value == (s.current_capital * 2 * SurgeLeverage) \div 10
         IN  [s EXCEPT !.position = IF side = "LONG" THEN 1 ELSE -1,
                       !.position_size = MulDiv(position_value, SizeScale, price),
                       !.entry_price = price,
                       !.last_trade_time = t]

\* position_size * entry_price
SurgePositionValue(s) == MulDiv(s.position_size, s.entry_price, SizeScale)

\* total_fees = position_value * (abs(maker_fee) + abs(taker_fee))
SurgeFees(s) == MulDiv(SurgePositionValue(s), Abs(SurgeMakerFee) + Abs(SurgeTakerFee), RateScale)

\* raw_pnl = position_value * price_change * leverage
SurgeRawPnl(s, price) ==
    LET d == IF s.position < 0 THEN s.entry_price - price ELSE price - s.entry_price
    IN  MulDiv(SurgePositionValue(s), d * SurgeLeverage, s.entry_price)

\* a settlement that charges the exit (taker) fee only
SurgeNetPnlTakerOnly(s, price) ==
    SurgeRawPnl(s, price) - MulDiv(SurgePositionValue(s), Abs(SurgeTakerFee), RateScale)

\* net_pnl = raw_pnl - total_fees
SurgeNetPnl(s, price) == SurgeRawPnl(s, price) - SurgeFees(s)

\* the loss streak after a close with the given net PnL
SurgeStreak(streak, net_pnl) == IF net_pnl > 0 THEN 0 ELSE streak + 1

\* close_position
SurgeClosePosition(s, price) ==
    IF s.position = 0 THEN s
    ELSE LET net_pnl == SurgeNetPnl(s, price)
         IN  [s EXCEPT !.current_capital = @ + net_pnl,
                       !.daily_loss = @ + net_pnl,
                       !.total_pnl = @ + net_pnl,
                       !.total_fees = @ + SurgeFees(s),
                       !.total_trades = @ + 1,
                       !.winning_trades = IF net_pnl > 0 THEN @ + 1 ELSE @,
                       !.consecutive_losses = SurgeStreak(@, net_pnl),
                       !.position = 0,
                       !.position_size = 0,
                       !.entry_price = 0]

\* _check_exit_conditions: take profit, else stop loss, on the unleveraged price change
SurgeCheckExit(s, price) ==
    LET d == IF s.position < 0 THEN s.entry_price - price ELSE price - s.entry_price
    IN  IF s.position = 0 THEN s
        ELSE IF d * RateScale >= SurgeProfitTarget * s.entry_price
             THEN SurgeClosePosition(s, price)
        ELSE IF d * RateScale <= SurgeStopLoss * s.entry_price
             THEN SurgeClosePosition(s, price)
        ELSE s

\* _check_entry_conditions: a volume surge with a significant price move
SurgeCheckEntry(s, price, is_surge, t) ==
    LET direction == SurgeDirection(s, price)
    IN  IF ~is_surge \/ s.price_len < SurgeWarmup THEN s
        ELSE IF direction = "UP" THEN SurgeEnterPosition(s, price, "LONG", t)
        ELSE IF direction = "DOWN" THEN SurgeEnterPosition(s, price, "SHORT", t)
        ELSE s

\* the daily-loss gate of update()
SurgeDailyLossReached(s) == Abs(s.daily_loss) >= SurgeMaxDailyLoss

\* the loss-streak gate of update()
SurgeStreakReached(s) == s.consecutive_losses >= 3

\* update(price, volume) called at wall-clock time t
SurgeUpdateResult(s0, price, is_surge, t) ==
    LET s1 == IF Date(t) > s0.last_reset_day
              THEN [s0 EXCEPT !.daily_loss = 0, !.last_reset_day = Date(t)]
              ELSE s0
        s2 == [s1 EXCEPT !.price_len = Min(@ + 1, SurgeWarmup)]
    IN  IF s2.position # 0 THEN SurgeCheckExit(s2, price)
        ELSE IF SurgeDailyLossReached(s2) THEN s2
        ELSE IF SurgeStreakReached(s2) THEN s2
        ELSE IF s2.total_trades >= SurgeMaxTrades THEN s2
        ELSE SurgeCheckEntry(s2, price, is_surge, t)

SurgeInit ==
    /\ cls = "VolumeSurgeStrategy"
    /\ now = 0
    /\ tick = [price |-> 0, is_surge |-> FALSE]
    /\ Starts(Fresh(SurgeInitialCapital, 0))

SurgeUpdate ==
    \E price \in SurgePrices, is_surge \in BOOLEAN, dt \in ClockSteps :
        /\ cls = "VolumeSurgeStrategy"
        /\ Date(now + dt) <= SurgeMaxDay
        /\ UNCHANGED cls
        /\ now' = now + dt
        /\ tick' = [price |-> price, is_surge |-> is_surge]
        /\ Becomes([SurgeUpdateResult(Self, price, is_surge, now + dt)
                        EXCEPT !.prev_price = price])

SurgeNext == SurgeUpdate

SpecSurge == SurgeInit /\ [][SurgeNext]_vars

----------------------------------------------------------------------------
(* OptimizedBreakoutStrategy (optimized_breakout_strategy.py)              *)
(* The tick's inputs: the price; signal, the side whose breakout, touch,   *)
(* RSI and EMA conditions of _check_entry_conditions all hold after a      *)
(* volume surge with both a support and a resistance level known ("NONE"   *)
(* when neither does); touches, the touch count of the closest levels;     *)
(* level_reversal, whether the price is beyond a level against the held    *)
(* side.                                                                   *)

BreakoutInitialCapital == 20000
BreakoutLeverage == 50
BreakoutLookback == 20
BreakoutProfitTarget == 30
BreakoutStopLoss == -8
BreakoutMakerFee == -2
BreakoutTakerFee == 5
BreakoutMaxDailyLoss == (BreakoutInitialCapital * 15) \div 100
BreakoutPrices == {10000, 10020}
BreakoutTouches == {1}

\* level_multiplier = min(1.3, 1 + touches * 0.1), in tenths
BreakoutLevelMultiplier(touches) == Min(13, 10 + touches)

\* the daily-loss gate of calculate_position_size
BreakoutDailyLossReached(s) == s.daily_loss <= -BreakoutMaxDailyLoss

\* calculate_position_size: 0 at the daily loss limit, else 20% of capital, scaled by the
\* level strength, leveraged, divided by the price
BreakoutCalculatePositionSize(s, price, touches) ==
    IF BreakoutDailyLossReached(s) THEN 0
    ELSE LET position_value ==
                 (s.current_capital * 2 * BreakoutLevelMultiplier(touches) * BreakoutLeverage)
                     \div 100
         IN  MulDiv(position_value, SizeScale, price)

\* enter_position
BreakoutEnterPosition(s, price, side, touches, t) ==
    LET size == BreakoutCalculatePositionSize(s, price, touches)
        s1 == [s EXCEPT !.position_size = size]
    IN  IF size = 0 THEN s1
        ELSE [s1 EXCEPT !.position = IF side = "LONG" THEN 1 ELSE -1,
                        !.entry_price = price,
                        !.last_trade_time = t]

\* a loss-streak gate that only starts after a fourth loss
BreakoutStreakReachedLate(s) == s.consecutive_losses > 3

\* the loss-streak gate of _check_entry_conditions
BreakoutStreakReached(s) == s.consecutive_losses >= 3

\* _check_entry_conditions
BreakoutCheckEntry(s, price, signal, touches, t) ==
    IF signal = "NONE" THEN s
    ELSE IF BreakoutStreakReached(s) THEN s
    ELSE IF s.total_trades >= BreakoutMaxTrades THEN s
    ELSE BreakoutEnterPosition(s, price, signal, touches, t)

\* position_size * entry_price
BreakoutPositionValue(s) == MulDiv(s.position_size, s.entry_price, SizeScale)

\* total_fees = position_value * (abs(maker_fee) + abs(taker_fee))
BreakoutFees(s) ==
    MulDiv(BreakoutPositionValue(s), Abs(BreakoutMakerFee) + Abs(BreakoutTakerFee), RateScale)

\* raw_pnl = position_value * price_change * leverage
BreakoutRawPnl(s, price) ==
    LET d == IF s.position < 0 THEN s.entry_price - price ELSE price - s.entry_price
    IN  MulDiv(BreakoutPositionValue(s), d * BreakoutLeverage, s.entry_price)

\* net_pnl = raw_pnl - total_fees
BreakoutNetPnl(s, price) == BreakoutRawPnl(s, price) - BreakoutFees(s)

\* the loss streak after a close with the given net PnL
BreakoutStreak(streak, net_pnl) == IF net_pnl > 0 THEN 0 ELSE streak + 1

\* close_position (the try block; no statement of it raises for prices > 0)
BreakoutClosePosition(s, price) ==
    IF s.position = 0 THEN s
    ELSE LET net_pnl == BreakoutNetPnl(s, price)
         IN  [s EXCEPT !.current_capital = @ + net_pnl,
                       !.daily_loss = @ + net_pnl,
                       !.total_pnl = @ + net_pnl,
                       !.total_fees = @ + BreakoutFees(s),
                       !.total_trades = @ + 1,
                       !.winning_trades = IF net_pnl > 0 THEN @ + 1 ELSE @,
                       !.consecutive_losses = BreakoutStreak(@, net_pnl),
                       !.position = 0,
                       !.position_size = 0,
                       !.entry_price = 0]

\* _check_exit_conditions: the leveraged price change against the thresholds
BreakoutCheckExit(s, price, level_reversal) ==
    LET d == IF s.position < 0 THEN s.entry_price - price ELSE price - s.entry_price
        hit_profit == d * BreakoutLeverage * RateScale >= BreakoutProfitTarget * s.entry_price
        hit_stop == d * BreakoutLeverage * RateScale <= BreakoutStopLoss * s.entry_price
    IN  IF s.position = 0 THEN s
        ELSE IF hit_profit \/ hit_stop \/ level_reversal THEN BreakoutClosePosition(s, price)
        ELSE s

BreakoutInPositionNever(s) == FALSE

\* if self.position != 0 (position management of update)
BreakoutInPosition(s) == s.position # 0

\* update(price, high, low, volume) called at wall-clock time t
BreakoutUpdateResult(s0, price, signal, touches, level_reversal, t) ==
    LET s1 == [s0 EXCEPT !.price_len = Min(@ + 1, BreakoutLookback)]
        s2 == IF Date(t) # s1.last_reset_day
              THEN [s1 EXCEPT !.daily_loss = 0, !.last_reset_day = Date(t)]
              ELSE s1
    IN  IF s2.price_len < BreakoutLookback THEN s2
        ELSE IF BreakoutInPosition(s2) THEN BreakoutCheckExit(s2, price, level_reversal)
        ELSE BreakoutCheckEntry(s2, price, signal, touches, t)

BreakoutInit ==
    /\ cls = "OptimizedBreakoutStrategy"
    /\ now = 0
    /\ tick = [price |-> 0, signal |-> "NONE", touches |-> 1, level_reversal |-> FALSE]
    /\ Starts(Fresh(BreakoutInitialCapital, 0))

BreakoutUpdate ==
    \E price \in BreakoutPrices, signal \in {"LONG", "SHORT", "NONE"},
       touches \in BreakoutTouches, level_reversal \in BOOLEAN, dt \in ClockSteps :
        /\ cls = "OptimizedBreakoutStrategy"
        /\ Date(now + dt) <= BreakoutMaxDay
        \* inputs the call does not read are not enumerated
        /\ price_len + 1 < BreakoutLookback => signal = "NONE"
        /\ signal = "NONE" => touches = 1
        /\ (position = 0 \/ price_len + 1 < BreakoutLookback) => ~level_reversal
        /\ UNCHANGED cls
        /\ now' = now + dt
        /\ tick' = [price |-> price, signal |-> signal, touches |-> touches,
                    level_reversal |-> level_reversal]
        /\ Becomes(BreakoutUpdateResult(Self, price, signal, touches, level_reversal, now + dt))

BreakoutNext == BreakoutUpdate

SpecBreakout == BreakoutInit /\ [][BreakoutNext]_vars

----------------------------------------------------------------------------
(* BidirectionalStrategy (bidirectional_strategy.py)                       *)
(* The tick's inputs: the price; rsi, the latest RSI value; macd_rel, the  *)
(* sign of MACD - signal line; trend_up, fast EMA > slow EMA.  The ledger  *)
(* records carry the fields the handler and the summary read; the time     *)
(* stamps and RSI values it also stores are never read back.               *)

BidirInitialCapital == 100000
BidirLeverage == 50
BidirWarmup == 26
BidirRsiOverbought == 75
BidirRsiOversold == 25
BidirRsiExitLong == 70
BidirRsiExitShort == 30
BidirMinProfitPct == 100
BidirMaxLossPct == -20
BidirTrailingStopPct == 50
BidirPrices == {9980, 10000, 10060, 10100}
BidirRsiValues == {20, 50, 80}
BidirMacdRels == {-1, 1}

\* a trade of the ledger that has its exit fields
Closed(tr) == "exit_price" \in DOMAIN tr

\* dict.update: the record with the fields of upd added or overwritten
Updated(tr, upd) ==
    [f \in DOMAIN tr \cup DOMAIN upd |-> IF f \in DOMAIN upd THEN upd[f] ELSE tr[f]]

\* the ledger with its last trade updated
LastUpdated(ledger, upd) ==
    [ledger EXCEPT ![Len(ledger)] = Updated(ledger[Len(ledger)], upd)]

\* if self.position == 0
BidirIsFlat(s) == s.position = 0

BidirHighestCurrent(highest, price) == price

\* self.highest_price = max(self.highest_price, current_price)
BidirHighest(highest, price) == Max(highest, price)

\* self.lowest_price = min(self.lowest_price, current_price)
BidirLowest(lowest, price) == Min(lowest, price)

BidirStopHitNever(side, price, highest, lowest) == FALSE

\* current_price <= highest_price * (1 - trailing_stop_pct/100), resp. >= lowest_price * (1 + ..)
BidirStopHit(side, price, highest, lowest) ==
    IF side = 1
    THEN price * 100 * PctScale <= highest * (100 * PctScale - BidirTrailingStopPct)
    ELSE price * 100 * PctScale >= lowest * (100 * PctScale + BidirTrailingStopPct)

\* the exit reason recorded in the ledger
BidirExitReason(side, macd_rel, profit, loss) ==
    IF (side = 1 /\ macd_rel < 0) \/ (side = -1 /\ macd_rel > 0) THEN "Signal Reversal"
    ELSE IF profit THEN "Profit Target"
    ELSE IF loss THEN "Stop Loss"
    ELSE "Trailing Stop"

\* long_signal / short_signal of the entry branch
BidirSignal(rsi, macd_rel, trend_up) ==
    IF rsi < BidirRsiOversold /\ macd_rel > 0 /\ trend_up THEN "LONG"
    ELSE IF rsi > BidirRsiOverbought /\ macd_rel < 0 /\ ~trend_up THEN "SHORT"
    ELSE "NONE"

\* the entry branch of execute_trade
BidirEnter(s, price, rsi, macd_rel, trend_up) ==
    LET long_signal == BidirSignal(rsi, macd_rel, trend_up) = "LONG"
        short_signal == BidirSignal(rsi, macd_rel, trend_up) = "SHORT"
        size == s.portfolio_value * BidirLeverage
    IN  IF Len(s.trades) >= BidirMaxTrades THEN s
        ELSE IF long_signal
        THEN [s EXCEPT !.position = 1, !.entry_price = price, !.highest_price = price,
                       !.trades = Append(@, [type |-> "LONG", entry_price |-> price,
                                             size |-> size])]
        ELSE IF short_signal
        THEN [s EXCEPT !.position = -1, !.entry_price = price, !.lowest_price = price,
                       !.trades = Append(@, [type |-> "SHORT", entry_price |-> price,
                                             size |-> size])]
        ELSE s

\* the exit branch of execute_trade
BidirExit(s, price, rsi, macd_rel) ==
    LET highest == IF s.position = 1 THEN BidirHighest(s.highest_price, price)
                   ELSE s.highest_price
        lowest == IF s.position = 1 THEN s.lowest_price
                  ELSE BidirLowest(s.lowest_price, price)
        d == IF s.position = 1 THEN price - s.entry_price ELSE s.entry_price - price
        profit == d * 100 * PctScale >= BidirMinProfitPct * s.entry_price
        loss == d * 100 * PctScale <= BidirMaxLossPct * s.entry_price
        stop_hit == BidirStopHit(s.position, price, highest, lowest)
        should_exit == \/ s.position = 1 /\ macd_rel < 0 /\ rsi > BidirRsiExitLong
                       \/ s.position = -1 /\ macd_rel > 0 /\ rsi < BidirRsiExitShort
                       \/ profit
                       \/ loss
                       \/ stop_hit
        s1 == [s EXCEPT !.highest_price = highest, !.lowest_price = lowest]
    IN  IF ~should_exit THEN s1
        ELSE [s1 EXCEPT
                !.portfolio_value = @ + MulDiv(@, d * BidirLeverage, s.entry_price),
                !.trades = LastUpdated(@,
                    [exit_price |-> price,
                     pnl |-> MulDiv(BidirInitialCapital, d * BidirLeverage, s.entry_price),
                     pnl_pct |-> (d * 100 * PctScale) \div s.entry_price,
                     exit_reason |-> BidirExitReason(s.position, macd_rel, profit, loss)]),
                !.position = 0,
                !.entry_price = 0]

\* execute_trade(current_price, current_time)
BidirExecuteTradeResult(s0, price, rsi, macd_rel, trend_up) ==
    LET s == [s0 EXCEPT !.price_len = Min(@ + 1, BidirWarmup)]
    IN  IF s.price_len < BidirWarmup THEN s
        ELSE IF BidirIsFlat(s) THEN BidirEnter(s, price, rsi, macd_rel, trend_up)
        ELSE BidirExit(s, price, rsi, macd_rel)

BidirInit ==
    /\ cls = "BidirectionalStrategy"
    /\ now = 0
    /\ tick = [price |-> 0, signal |-> "NONE"]
    /\ Starts(Fresh(BidirInitialCapital, 0))

BidirExecuteTrade ==
    \E price \in BidirPrices, rsi \in BidirRsiValues, macd_rel \in BidirMacdRels,
       trend_up \in BOOLEAN :
        /\ cls = "BidirectionalStrategy"
        \* inputs the call does not read are not enumerated
        /\ price_len + 1 < BidirWarmup => (rsi = 50 /\ macd_rel = 1 /\ ~trend_up)
        /\ UNCHANGED <<cls, now>>
        /\ tick' = [price |-> price, signal |-> BidirSignal(rsi, macd_rel, trend_up)]
        /\ Becomes(BidirExecuteTradeResult(Self, price, rsi, macd_rel, trend_up))

BidirNext == BidirExecuteTrade

SpecBidir == BidirInit /\ [][BidirNext]_vars

----------------------------------------------------------------------------
(* strategies.BaseStrategy (strategies.py)                                 *)
(* position is the signed notional, portfolio_value * leverage * signal.   *)
(* The tick's inputs: the price and the signal of generate_signals.        *)

BaseInitialCapital == 100000
BaseLeverage == 50
BaseStopLossPct == 2
BaseTakeProfitPct == 4
BasePrices == {9800, 10000, 10400}
BaseSignals == {-1, 0, 1}

\* position * price_change, rounded towards zero
BaseUnrealizedPnl(s, price) ==
    LET d == price - s.entry_price
        magnitude == MulDiv(Abs(s.position), Abs(d), s.entry_price)
    IN  IF (s.position < 0) = (d < 0) THEN magnitude ELSE -magnitude

\* the branch that opens a position
BaseOpen(s, price, signal) ==
    LET size == s.portfolio_value * BaseLeverage
        pos == size * signal
    IN  [s EXCEPT
            !.position = pos,
            !.entry_price = price,
            !.stop_loss = IF signal > 0 THEN MulDiv(price, 100 - BaseStopLossPct, 100)
                          ELSE MulDiv(price, 100 + BaseStopLossPct, 100),
            !.take_profit = IF signal > 0 THEN MulDiv(price, 100 + BaseTakeProfitPct, 100)
                            ELSE MulDiv(price, 100 - BaseTakeProfitPct, 100),
            !.trades = Append(@, [type |-> IF signal > 0 THEN "LONG" ELSE "SHORT",
                                  entry_price |-> price,
                                  size |-> Abs(pos),
                                  portfolio_value |-> s.portfolio_value])]

\* exit_reason of the exit branch ("" when the position is kept)
BaseExitReason(s, price) ==
    IF s.position > 0
    THEN IF price <= s.stop_loss THEN "Stop Loss"
         ELSE IF price >= s.take_profit THEN "Take Profit"
         ELSE ""
    ELSE IF price >= s.stop_loss THEN "Stop Loss"
         ELSE IF price <= s.take_profit THEN "Take Profit"
         ELSE ""

\* (peak - current) / peak * 100, in whole percent rounded down
BaseDrawdown(peak, current) == MulDiv(peak - current, 100, peak)

\* a drawdown loop that measures every fall from the peak it was started with
RECURSIVE BaseMaxDrawdownFixedPeak(_, _, _, _)
BaseMaxDrawdownFixedPeak(ledger, i, peak, worst) ==
    IF i > Len(ledger) THEN worst
    ELSE IF "portfolio_value" \in DOMAIN ledger[i]
         THEN BaseMaxDrawdownFixedPeak(ledger, i + 1, peak,
                                       Max(worst, BaseDrawdown(peak, ledger[i].portfolio_value)))
         ELSE BaseMaxDrawdownFixedPeak(ledger, i + 1, peak, worst)

\* the "Calculate max drawdown" loop from ledger entry i on: every entry that has a
\* 'portfolio_value' is compared with the peak before it, then raises the peak
RECURSIVE BaseMaxDrawdown(_, _, _, _)
BaseMaxDrawdown(ledger, i, peak, worst) ==
    IF i > Len(ledger) THEN worst
    ELSE IF "portfolio_value" \in DOMAIN ledger[i]
         THEN LET current == ledger[i].portfolio_value
              IN  BaseMaxDrawdown(ledger, i + 1, Max(peak, current),
                                  Max(worst, BaseDrawdown(peak, current)))
         ELSE BaseMaxDrawdown(ledger, i + 1, peak, worst)

\* update_performance_metrics: the counters and the drawdown
BaseUpdatePerformanceMetrics(s, pnl) ==
    [s EXCEPT !.total_trades = @ + 1,
              !.total_pnl = @ + pnl,
              !.winning_trades = IF pnl > 0 THEN @ + 1 ELSE @,
              !.max_drawdown = BaseMaxDrawdown(s.trades, 1, BaseInitialCapital, @)]

\* the branch that checks the exit conditions
BaseCheckExit(s, price) ==
    LET exit_reason == BaseExitReason(s, price)
        pnl == BaseUnrealizedPnl(s, price)
        s1 == [s EXCEPT !.portfolio_value = @ + pnl]
        s2 == [s1 EXCEPT !.trades = LastUpdated(@,
                            [exit_price |-> price, exit_reason |-> exit_reason,
                             pnl |-> pnl, portfolio_value |-> s1.portfolio_value])]
    IN  IF exit_reason = "" THEN s
        ELSE [BaseUpdatePerformanceMetrics(s2, pnl) EXCEPT !.position = 0]

\* execute_trade(current_price, signal)
BaseExecuteTradeResult(s, price, signal) ==
    IF signal # 0 /\ s.position = 0
    THEN IF Len(s.trades) >= BaseMaxTrades THEN s ELSE BaseOpen(s, price, signal)
    ELSE IF s.position # 0 THEN BaseCheckExit(s, price)
    ELSE s

BaseInit ==
    /\ cls = "strategies.BaseStrategy"
    /\ now = 0
    /\ tick = [price |-> 0, signal |-> 0]
    /\ Starts(Fresh(BaseInitialCapital, 0))

BaseExecuteTrade ==
    \E price \in BasePrices, signal \in BaseSignals :
        /\ cls = "strategies.BaseStrategy"
        /\ UNCHANGED <<cls, now>>
        /\ tick' = [price |-> price, signal |-> signal]
        /\ Becomes(BaseExecuteTradeResult(Self, price, signal))

BaseNext == BaseExecuteTrade

SpecBase == BaseInit /\ [][BaseNext]_vars

----------------------------------------------------------------------------
(* TrendFollowingStrategy (trading_strategies.py)                          *)
(* The tick's inputs: the price; ema_rel, the sign of ema_short - ema_long;*)
(* volume_high, whether the volume is above the mean of volume_history.    *)

TrendInitialCapital == 100000
TrendLeverage == 50
TrendEmaLong == 21
TrendMinTrendStrength == 50
TrendProfitTarget == 100
TrendStopLoss == -50
TrendMakerFee == 2
TrendTakerFee == 5
TrendPrices == {9940, 10000, 10060, 10120}
TrendEmaRels == {-1, 1}

\* calculate_fees(size, is_maker)
TrendCalculateFees(size, is_maker) ==
    MulDiv(size, IF is_maker THEN TrendMakerFee ELSE TrendTakerFee, RateScale)

\* the side whose entry conditions hold
TrendSignal(s, price, ema_rel, volume_high) ==
    LET d == price - s.prev_price
    IN  IF ema_rel > 0 /\ d * 100 * PctScale > TrendMinTrendStrength * s.prev_price
           /\ volume_high THEN "LONG"
        ELSE IF ema_rel < 0 /\ d * 100 * PctScale < -TrendMinTrendStrength * s.prev_price
                /\ volume_high THEN "SHORT"
        ELSE "NONE"

\* the entry logic of execute_trade
TrendEnter(s, price, signal) ==
    LET size == s.portfolio_value * TrendLeverage
    IN  IF signal = "NONE" \/ Len(s.trades) >= TrendMaxTrades THEN s
        ELSE [s EXCEPT !.position = IF signal = "LONG" THEN 1 ELSE -1,
                       !.entry_price = price,
                       !.trades = Append(@, [type |-> signal, entry_price |-> price,
                                             size |-> size])]

\* the fees charged at the settlement of a position of the given size
TrendSettlementFees(size) == TrendCalculateFees(size, FALSE)

\* the exit logic of execute_trade
TrendExit(s, price, ema_rel) ==
    LET d == IF s.position = 1 THEN price - s.entry_price ELSE s.entry_price - price
        profit == d * 100 * PctScale >= TrendProfitTarget * s.entry_price
        loss == d * 100 * PctScale <= TrendStopLoss * s.entry_price
        reversal == (s.position = 1 /\ ema_rel < 0) \/ (s.position = -1 /\ ema_rel > 0)
        exit_reason == IF profit THEN "Profit Target"
                       ELSE IF loss THEN "Stop Loss"
                       ELSE "Trend Reversal"
        size == s.trades[Len(s.trades)].size
        fees == TrendSettlementFees(size)
        gross == IF d >= 0 THEN MulDiv(size, d, s.entry_price)
                 ELSE -MulDiv(size, -d, s.entry_price)
        pnl == gross - fees
    IN  IF ~(profit \/ loss \/ reversal) THEN s
        ELSE [s EXCEPT
                !.trades = LastUpdated(@,
                    [exit_price |-> price, pnl |-> pnl,
                     pnl_pct |-> (d * 100 * PctScale) \div s.entry_price,
                     exit_reason |-> exit_reason, fees |-> fees]),
                !.portfolio_value = @ + pnl,
                !.position = 0,
                !.entry_price = 0]

\* execute_trade(price, current_time, volume)
TrendExecuteTradeResult(s0, price, ema_rel, volume_high) ==
    LET s == [s0 EXCEPT !.price_len = Min(@ + 1, TrendEmaLong)]
    IN  IF s.price_len < TrendEmaLong THEN s
        ELSE IF s.position = 0
             THEN TrendEnter(s, price, TrendSignal(s, price, ema_rel, volume_high))
        ELSE TrendExit(s, price, ema_rel)

TrendInit ==
    /\ cls = "TrendFollowingStrategy"
    /\ now = 0
    /\ tick = [price |-> 0, signal |-> "NONE"]
    /\ Starts(Fresh(TrendInitialCapital, 0))

TrendExecuteTrade ==
    \E price \in TrendPrices, ema_rel \in TrendEmaRels, volume_high \in BOOLEAN :
        /\ cls = "TrendFollowingStrategy"
        \* inputs the call does not read are not enumerated
        /\ price_len + 1 < TrendEmaLong => (ema_rel = 1 /\ ~volume_high)
        /\ position # 0 => ~volume_high
        /\ UNCHANGED <<cls, now>>
        /\ tick' = [price |-> price,
                    signal |-> IF price_len + 1 < TrendEmaLong THEN "NONE"
                               ELSE TrendSignal(Self, price, ema_rel, volume_high)]
        /\ Becomes([TrendExecuteTradeResult(Self, price, ema_rel, volume_high)
                        EXCEPT !.prev_price = price])

TrendNext == TrendExecuteTrade

SpecTrend == TrendInit /\ [][TrendNext]_vars

----------------------------------------------------------------------------
(* MACDVolumeStrategy (macd_volume_strategy.py), constructed as in         *)
(* run_strategies.py.  The tick's inputs: the price; macd_rel, the sign of *)
(* MACD - signal line; volume_condition, volume > volume_ma * threshold.   *)

MACDInitialCapital == 500000
MACDLeverage == 50
MACDSlowPeriod == 26
MACDSignalPeriod == 9
MACDVolumeMaPeriod == 20
MACDProfitTarget == 100
MACDStopLoss == -50
MACDTradeCooldown == 20
MACDMakerFee == -2
MACDTakerFee == 5
MACDLimitOrderOffset == 1
MACDMaxPositionSizePct == 10
MACDMaxDailyLoss == (MACDInitialCapital * 2) \div 100
MACDPrices == {10000, 10010}
MACDRels == {-1, 1}
MACDClockSteps == {0, MACDTradeCooldown, SecondsPerDay}

\* calculate_position_size(price) at wall-clock time t: the instance and the size returned
MACDCalculatePositionSize(s0, price, t) ==
    LET s == IF Date(t) # s0.last_reset_day
             THEN [s0 EXCEPT !.daily_loss = 0, !.last_reset_day = Date(t)]
             ELSE s0
        max_position == s.current_capital * MACDLeverage
        target_position == (max_position * MACDMaxPositionSizePct) \div 100
    IN  [self |-> s,
         size |-> IF s.daily_loss <= -MACDMaxDailyLoss THEN 0
                  ELSE Min(MulDiv(target_position, SizeScale, price),
                           MulDiv(max_position, SizeScale, price))]

\* enter_position(price, side) at wall-clock time t
MACDEnterPosition(s, price, side, t) ==
    LET limit_entry_price == IF side = "LONG"
                             THEN MulDiv(price, RateScale - MACDLimitOrderOffset, RateScale)
                             ELSE MulDiv(price, RateScale + MACDLimitOrderOffset, RateScale)
        sized == MACDCalculatePositionSize(s, limit_entry_price, t)
    IN  [sized.self EXCEPT !.position_size = sized.size,
                           !.position = IF side = "LONG" THEN 1 ELSE -1,
                           !.entry_price = limit_entry_price,
                           !.highest_price = limit_entry_price,
                           !.lowest_price = limit_entry_price,
                           !.last_trade_time = t]

\* the side signalled by MACD and volume
MACDSignal(macd_rel, volume_condition) ==
    IF macd_rel > 0 /\ volume_condition THEN "LONG"
    ELSE IF macd_rel < 0 /\ volume_condition THEN "SHORT"
    ELSE "NONE"

\* _check_entry_conditions(price) at wall-clock time t
MACDCheckEntry(s, price, macd_rel, volume_condition, t) ==
    LET signal == MACDSignal(macd_rel, volume_condition)
    IN  IF s.price_len < MACDSlowPeriod + MACDSignalPeriod THEN s
        ELSE IF t - s.last_trade_time < MACDTradeCooldown THEN s
        ELSE IF signal = "NONE" \/ s.total_trades >= MACDMaxTrades THEN s
        ELSE MACDEnterPosition(s, price, signal, t)

\* position_size * entry_price
MACDPositionValue(s) == MulDiv(s.position_size, s.entry_price, SizeScale)

\* close_position(price, reason) (the try block; no statement of it raises)
MACDClosePosition(s, price) ==
    LET d == IF s.position > 0 THEN price - s.entry_price ELSE s.entry_price - price
        position_value == MACDPositionValue(s)
        raw_pnl == IF d >= 0 THEN MulDiv(position_value, d * MACDLeverage, s.entry_price)
                   ELSE -MulDiv(position_value, -d * MACDLeverage, s.entry_price)
        fees == MulDiv(position_value, Abs(MACDMakerFee) + Abs(MACDTakerFee), RateScale)
        net_pnl == raw_pnl - fees
    IN  IF s.position = 0 THEN s
        ELSE [s EXCEPT !.daily_loss = @ + net_pnl,
                       !.total_pnl = @ + net_pnl,
                       !.total_fees = @ + fees,
                       !.winning_trades = IF net_pnl > 0 THEN @ + 1 ELSE @,
                       !.total_trades = @ + 1,
                       !.position = 0,
                       !.position_size = 0,
                       !.entry_price = 0,
                       !.highest_price = 0,
                       !.lowest_price = Infinity]

\* _check_exit_conditions(price)
MACDCheckExit(s, price, macd_rel) ==
    LET d == IF s.position < 0 THEN s.entry_price - price ELSE price - s.entry_price
        hit_profit == d * MACDLeverage * 100 * RateScale >= MACDProfitTarget * s.entry_price
        hit_stop == d * MACDLeverage * 100 * RateScale <= MACDStopLoss * s.entry_price
        macd_cross == (s.position > 0 /\ macd_rel < 0) \/ (s.position < 0 /\ macd_rel > 0)
    IN  IF hit_profit \/ hit_stop \/ macd_cross THEN MACDClosePosition(s, price) ELSE s

\* update(price, volume) called at wall-clock time t
MACDUpdateResult(s0, price, macd_rel, volume_condition, t) ==
    LET s == [s0 EXCEPT !.price_len = Min(@ + 1, MACDSlowPeriod + MACDSignalPeriod)]
    IN  IF s.price_len < Max(MACDSlowPeriod, MACDVolumeMaPeriod) THEN s
        ELSE IF s.position # 0
             THEN MACDCheckExit([s EXCEPT !.highest_price = Max(@, price),
                                          !.lowest_price = Min(@, price)],
                                price, macd_rel)
        ELSE MACDCheckEntry(s, price, macd_rel, volume_condition, t)

MACDInit ==
    /\ cls = "MACDVolumeStrategy"
    /\ now = 0
    /\ tick = [price |-> 0, signal |-> "NONE"]
    /\ Starts(Fresh(MACDInitialCapital, 0))

MACDUpdate ==
    \E price \in MACDPrices, macd_rel \in MACDRels, volume_condition \in BOOLEAN,
       dt \in MACDClockSteps :
        /\ cls = "MACDVolumeStrategy"
        /\ Date(now + dt) <= MACDMaxDay
        \* the clock is stepped by the cooldown only while the cooldown runs
        /\ dt = MACDTradeCooldown => now - last_trade_time < MACDTradeCooldown
        \* inputs the call does not read are not enumerated
        /\ price_len + 1 < MACDSlowPeriod + MACDSignalPeriod =>
                (macd_rel = 1 /\ ~volume_condition /\ dt = 0)
        /\ position # 0 => ~volume_condition
        /\ UNCHANGED cls
        /\ now' = now + dt
        /\ tick' = [price |-> price, signal |-> MACDSignal(macd_rel, volume_condition)]
        /\ Becomes(MACDUpdateResult(Self, price, macd_rel, volume_condition, now + dt))

MACDNext == MACDUpdate

SpecMACD == MACDInit /\ [][MACDNext]_vars

----------------------------------------------------------------------------
(* RSIBollingerStrategy (rsi_bollinger_strategy.py)                        *)
(* The tick's inputs: the price; rsi, the latest RSI value; band, the side *)
(* of the Bollinger bands the price is on (-1 below the lower band, 1      *)
(* above the upper band, 0 between them).  close_position is a public      *)
(* method: RSIBClose is a call of it by the owner of the instance, with a  *)
(* price that is a number or not (None raises TypeError in the try block). *)

RSIBInitialCapital == 20000
RSIBLeverage == 20
RSIBRsiPeriod == 9
RSIBBollingerPeriod == 20
RSIBRsiOversold == 30
RSIBRsiOverbought == 70
RSIBProfitTarget == 50
RSIBStopLoss == -30
RSIBTradeCooldown == 30
RSIBMakerFee == -2
RSIBTakerFee == 5
RSIBMaxDailyLoss == (RSIBInitialCapital * 5) \div 100
RSIBPrices == {9990, 10000}
RSIBRsiValues == {20, 50, 80}
RSIBBands == {-1, 0, 1}
RSIBClockSteps == {0, RSIBTradeCooldown, SecondsPerDay}

\* calculate_position_size(price)
RSIBCalculatePositionSize(s, price) ==
    IF s.daily_loss <= -RSIBMaxDailyLoss THEN 0
    ELSE MulDiv((s.current_capital * 2 * RSIBLeverage) \div 10, SizeScale, price)

\* enter_position(price, side) at wall-clock time t
RSIBEnterPosition(s, price, side, t) ==
    LET size == RSIBCalculatePositionSize(s, price)
    IN  IF size = 0 THEN [s EXCEPT !.position_size = 0]
        ELSE [s EXCEPT !.position_size = size,
                       !.position = IF side = "LONG" THEN 1 ELSE -1,
                       !.entry_price = price,
                       !.last_trade_time = t]

\* the side signalled by RSI and the Bollinger bands
RSIBSignal(rsi, band) ==
    IF rsi < RSIBRsiOversold /\ band < 0 THEN "LONG"
    ELSE IF rsi > RSIBRsiOverbought /\ band > 0 THEN "SHORT"
    ELSE "NONE"

\* _check_entry_conditions(price) at wall-clock time t
RSIBCheckEntry(s, price, rsi, band, t) ==
    LET signal == RSIBSignal(rsi, band)
    IN  IF t - s.last_trade_time < RSIBTradeCooldown THEN s
        ELSE IF signal = "NONE" \/ s.total_trades >= RSIBMaxTrades THEN s
        ELSE RSIBEnterPosition(s, price, signal, t)

\* position_size * entry_price
RSIBPositionValue(s) == MulDiv(s.position_size, s.entry_price, SizeScale)

\* the except branch of close_position
RSIBCloseFailed(s) == [s EXCEPT !.position = 0, !.position_size = 0]

\* the try block of close_position for a price that is a number
RSIBCloseSettled(s, price) ==
    LET d == IF s.position < 0 THEN s.entry_price - price ELSE price - s.entry_price
        position_value == RSIBPositionValue(s)
        raw_pnl == IF d >= 0 THEN MulDiv(position_value, d * RSIBLeverage, s.entry_price)
                   ELSE -MulDiv(position_value, -d * RSIBLeverage, s.entry_price)
        fees == MulDiv(position_value, Abs(RSIBMakerFee) + Abs(RSIBTakerFee), RateScale)
        net_pnl == raw_pnl - fees
    IN  [s EXCEPT !.current_capital = @ + net_pnl,
                  !.daily_loss = @ + net_pnl,
                  !.total_pnl = @ + net_pnl,
                  !.total_fees = @ + fees,
                  !.total_trades = @ + 1,
                  !.winning_trades = IF net_pnl > 0 THEN @ + 1 ELSE @,
                  !.position = 0,
                  !.position_size = 0,
                  !.entry_price = 0]

\* close_position(price, reason); numeric: whether price is a number
RSIBClosePosition(s, price, numeric) ==
    IF s.position = 0 THEN s
    ELSE IF ~numeric THEN RSIBCloseFailed(s)
    ELSE RSIBCloseSettled(s, price)

\* _check_exit_conditions(price)
RSIBCheckExit(s, price, rsi) ==
    LET d == IF s.position < 0 THEN s.entry_price - price ELSE price - s.entry_price
        hit_profit == d * RSIBLeverage * RateScale >= RSIBProfitTarget * s.entry_price
        hit_stop == d * RSIBLeverage * RateScale <= RSIBStopLoss * s.entry_price
        rsi_reversal == \/ s.position > 0 /\ rsi > RSIBRsiOverbought
                        \/ s.position < 0 /\ rsi < RSIBRsiOversold
    IN  IF s.position = 0 THEN s
        ELSE IF hit_profit \/ hit_stop \/ rsi_reversal THEN RSIBClosePosition(s, price, TRUE)
        ELSE s

\* update(price) called at wall-clock time t
RSIBUpdateResult(s0, price, rsi, band, t) ==
    LET s == [s0 EXCEPT !.price_len = Min(@ + 1, Max(RSIBRsiPeriod, RSIBBollingerPeriod))]
    IN  IF s.price_len < Max(RSIBRsiPeriod, RSIBBollingerPeriod) THEN s
        ELSE IF s.position # 0 THEN RSIBCheckExit(s, price, rsi)
        ELSE RSIBCheckEntry(s, price, rsi, band, t)

RSIBInit ==
    /\ cls = "RSIBollingerStrategy"
    /\ now = 0
    /\ tick = [price |-> 0, signal |-> "NONE"]
    /\ Starts(Fresh(RSIBInitialCapital, 0))

RSIBUpdate ==
    \E price \in RSIBPrices, rsi \in RSIBRsiValues, band \in RSIBBands,
       dt \in RSIBClockSteps :
        /\ cls = "RSIBollingerStrategy"
        /\ Date(now + dt) <= RSIBMaxDay
        \* the clock is stepped by the cooldown only while the cooldown runs
        /\ dt = RSIBTradeCooldown =>
                /\ now - last_trade_time < RSIBTradeCooldown
                /\ (now + dt) % SecondsPerDay <= RSIBMaxTrades * RSIBTradeCooldown
        \* inputs the call does not read are not enumerated
        /\ price_len + 1 < Max(RSIBRsiPeriod, RSIBBollingerPeriod) =>
                (rsi = 50 /\ band = 0 /\ dt = 0)
        /\ position # 0 => band = 0
        /\ UNCHANGED cls
        /\ now' = now + dt
        /\ tick' = [price |-> price, signal |-> RSIBSignal(rsi, band), rsi |-> rsi]
        /\ Becomes(RSIBUpdateResult(Self, price, rsi, band, now + dt))

RSIBClose ==
    \E price \in RSIBPrices, numeric \in BOOLEAN :
        /\ cls = "RSIBollingerStrategy"
        /\ position # 0
        /\ UNCHANGED <<cls, now>>
        /\ tick' = [price |-> price, signal |-> "NONE", numeric |-> numeric]
        /\ Becomes(RSIBClosePosition(Self, price, numeric))

RSIBNext == RSIBUpdate \/ RSIBClose

SpecRSIB == RSIBInit /\ [][RSIBNext]_vars

----------------------------------------------------------------------------
(***************************************************************************)
(* OrderBlockStrategy (order_block_strategy.py)                            *)
(* An order block is kept as its base price (price_data[-2] of the tick    *)
(* that found it) and its type; its range is base * 0.999 .. base * 1.001. *)
(* The tick's inputs: the price; prev_volume_high, whether the previous    *)
(* tick's volume exceeds volume_threshold times the average volume; k, the *)
(* index in order_blocks of the first block that the price is in the range *)
(* of and that passes the volume tests of check_block_retest (0: none).    *)
(***************************************************************************)
OBInitialCapital == 20000
OBLeverage == 50
OBLookbackPeriod == 30
OBMinBlockSize == 10
OBProfitTarget == 30
OBStopLoss == -10
OBMakerFee == -2
OBTakerFee == 5
OBMaxListed == 5
OBMaxDailyLoss == OBInitialCapital \div 10
OBPrices == {10000, 10020, 10050}

\* low <= price <= high for block = (prev_price * 1.001, prev_price * 0.999, volume, type)
OBInRange(block, price) ==
    /\ 999 * block.price <= 1000 * price
    /\ 1000 * price <= 1001 * block.price

\* identify_order_blocks: the list after a tick that leaves len(price_data) = len
OBIdentifyOrderBlocks(blocks, len, prev, price, prev_volume_high) ==
    IF len < 3 THEN blocks
    ELSE LET found == /\ Abs(price - prev) * RateScale > OBMinBlockSize * prev
                      /\ prev_volume_high
             listed == IF found
                       THEN Append(blocks, [price |-> prev,
                                            type |-> IF price > prev THEN "BULL" ELSE "BEAR"])
                       ELSE blocks
         IN  IF Len(listed) > OBMaxListed THEN Tail(listed) ELSE listed

\* check_block_retest, given the index k of the first block that passes its tests
OBCheckBlockRetest(blocks, k) == IF k = 0 THEN "NONE" ELSE blocks[k].type

\* enter_position: 20% of capital, leveraged; no statement of the try block raises
OBEnterPosition(s, price, side, t) ==
    IF s.position # 0 THEN s
    ELSE LET position_value == (s.current_capital * 2 * OBLeverage) \div 10
         IN  [s EXCEPT !.position = IF side = "LONG" THEN 1 ELSE -1,
                       !.position_size = MulDiv(position_value, SizeScale, price),
                       !.entry_price = price,
                       !.last_trade_time = t]

\* _check_entry_conditions
OBCheckEntry(s, price, block_type, t) ==
    IF block_type = "BULL" THEN OBEnterPosition(s, price, "LONG", t)
    ELSE IF block_type = "BEAR" THEN OBEnterPosition(s, price, "SHORT", t)
    ELSE s

\* position_size * entry_price
OBPositionValue(s) == MulDiv(s.position_size, s.entry_price, SizeScale)

\* close_position (the try block; no statement of it raises for prices > 0)
OBClosePosition(s, price) ==
    LET d == IF s.position < 0 THEN s.entry_price - price ELSE price - s.entry_price
        position_value == OBPositionValue(s)
        raw_pnl == IF d >= 0 THEN MulDiv(position_value, d * OBLeverage, s.entry_price)
                   ELSE -MulDiv(position_value, -d * OBLeverage, s.entry_price)
        fees == MulDiv(position_value, Abs(OBMakerFee) + Abs(OBTakerFee), RateScale)
        net_pnl == raw_pnl - fees
    IN  IF s.position = 0 THEN s
        ELSE [s EXCEPT !.current_capital = @ + net_pnl,
                       !.daily_loss = @ + net_pnl,
                       !.total_pnl = @ + net_pnl,
                       !.total_fees = @ + fees,
                       !.total_trades = @ + 1,
                       !.winning_trades = IF net_pnl > 0 THEN @ + 1 ELSE @,
                       !.consecutive_losses = IF net_pnl > 0 THEN 0 ELSE @ + 1,
                       !.position = 0,
                       !.position_size = 0,
                       !.entry_price = 0]

\* _check_exit_conditions: take profit, else stop loss, on the unleveraged price change
OBCheckExit(s, price) ==
    LET d == IF s.position < 0 THEN s.entry_price - price ELSE price - s.entry_price
    IN  IF s.position = 0 THEN s
        ELSE IF d * RateScale >= OBProfitTarget * s.entry_price THEN OBClosePosition(s, price)
        ELSE IF d * RateScale <= OBStopLoss * s.entry_price THEN OBClosePosition(s, price)
        ELSE s

\* the gates of update() before _check_entry_conditions
OBEntryBlocked(s) ==
    \/ Abs(s.daily_loss) >= OBMaxDailyLoss
    \/ s.consecutive_losses >= 3
    \/ s.total_trades >= OBMaxTrades

\* the fields after the daily reset and the appends of update()
OBStored(s0, price, t) ==
    LET s1 == IF Date(t) > s0.last_reset_day
              THEN [s0 EXCEPT !.daily_loss = 0, !.last_reset_day = Date(t)]
              ELSE s0
    IN  [s1 EXCEPT !.price_len = Min(@ + 1, OBLookbackPeriod), !.prev_price = price]

\* update(price, high, low, volume) called at wall-clock time t, after identify_order_blocks
\* has left the list as blocks
OBUpdateResult(s0, blocks, price, k, t) ==
    LET s == OBStored(s0, price, t)
    IN  IF s.position # 0 THEN OBCheckExit(s, price)
        ELSE IF OBEntryBlocked(s) THEN s
        ELSE OBCheckEntry(s, price, OBCheckBlockRetest(blocks, k), t)

OBInit ==
    /\ cls = "OrderBlockStrategy"
    /\ now = 0
    /\ tick = [price |-> 0, prev_volume_high |-> FALSE, k |-> 0]
    /\ Starts(Fresh(OBInitialCapital, 0))

OBUpdate ==
    \E price \in OBPrices, prev_volume_high \in BOOLEAN, k \in 0..OBMaxListed,
       dt \in ClockSteps :
        LET s == OBStored(Self, price, now + dt)
            blocks == OBIdentifyOrderBlocks(order_blocks, s.price_len, prev_price, price,
                                            prev_volume_high)
        IN  /\ cls = "OrderBlockStrategy"
            /\ Date(now + dt) <= OBMaxDay
            /\ prev_volume_high => Len(order_blocks) < OBMaxBlocks
            \* inputs the call does not read are not enumerated
            /\ prev_volume_high =>
                    (s.price_len >= 3 /\ Abs(price - prev_price) * RateScale > OBMinBlockSize * prev_price)
            /\ k # 0 => /\ position = 0
                        /\ ~OBEntryBlocked(s)
                        /\ k <= Len(blocks)
                        /\ OBInRange(blocks[k], price)
            /\ UNCHANGED <<cls, calls, pc, book, callbacks>>
            /\ now' = now + dt
            /\ tick' = [price |-> price, prev_volume_high |-> prev_volume_high, k |-> k]
            /\ order_blocks' = blocks
            /\ Assigns(OBUpdateResult(Self, blocks, price, k, now + dt))

OBNext == OBUpdate

SpecOB == OBInit /\ [][OBNext]_vars

----------------------------------------------------------------------------
(***************************************************************************)
(* StrategyManager and HyperliquidClient (multi_strategy_manager.py,       *)
(* hyperliquid_client.py).  run() executes in the main thread, _on_message *)
(* in the thread of the websocket.  A strategy is known to the manager by  *)
(* its index; book[i] is portfolio_value - initial_capital of strategy i,  *)
(* changed by its execute_trade, which is the callback registered for it.  *)
(* The inputs of a message: its trades ("ok", or "bad" for an entry that   *)
(* lacks 'time', 'px' or 'sz') and the outcome of each callback call:      *)
(* "ok" (no change of the strategy's value), "loss" (a position closed at  *)
(* a loss of ManagerLoss), "raise" (the call raises an exception).  The    *)
(* clock counts the sleeps of the polling loop.                            *)
(***************************************************************************)
ManagerStrategies == <<1, 2>>
ManagerMaxDrawdown == -30000
ManagerLoss == 15000
ManagerMessages == {<<"ok">>, <<"ok", "ok">>, <<"bad", "ok">>}
ManagerOutcomes == {"ok", "loss", "raise"}

RECURSIVE ManagerSum(_)
\* sum(s.portfolio_value - s.initial_capital for s in self.strategies)
ManagerSum(values) ==
    IF values = <<>> THEN 0 ELSE Head(values) + ManagerSum(Tail(values))

ManagerLimitReachedLate(total) == total < ManagerMaxDrawdown

\* if total_pnl <= self.max_drawdown
ManagerLimitReached(total) == total <= ManagerMaxDrawdown

RECURSIVE ClientPairs(_, _, _)
\* the callback calls of a message, in order: for each well-formed trade from the i-th on,
\* every registered callback
ClientPairs(message, i, cbs) ==
    IF i > Len(message) THEN <<>>
    ELSE (IF message[i] = "ok" THEN [j \in 1..Len(cbs) |-> <<i, cbs[j]>>] ELSE <<>>)
         \o ClientPairs(message, i + 1, cbs)

\* the number of callback calls made: the try block is left at the first call that raises
ClientCallsMade(outcomes) ==
    IF \E j \in 1..Len(outcomes) : outcomes[j] = "raise"
    THEN CHOOSE j \in 1..Len(outcomes) :
             /\ outcomes[j] = "raise"
             /\ \A h \in 1..(j - 1) : outcomes[h] # "raise"
    ELSE Len(outcomes)

\* the values of the strategies after the first made calls of pairs
ClientBookAfter(values, pairs, outcomes, made) ==
    [c \in 1..Len(values) |->
        values[c] - ManagerLoss * Cardinality({j \in 1..made : pairs[j][2] = c /\ outcomes[j] = "loss"})]

\* the number of messages of which a callback call is in the log
ClientMessagesSeen(log) ==
    Cardinality({log[j][2] : j \in {h \in 1..Len(log) : log[h][1] = "callback"}})

ManagerInit ==
    /\ cls = "StrategyManager"
    /\ now = 0
    /\ tick = [op |-> "__init__"]
    /\ Starts(Fresh(0, 0))

\* run(), up to the try statement: connect, register the callbacks, take the start time
ManagerRun ==
    /\ cls = "StrategyManager"
    /\ pc = "-"
    /\ pc' = "loop"
    /\ callbacks' = ManagerStrategies
    /\ book' = [c \in 1..Len(ManagerStrategies) |-> 0]
    /\ tick' = [op |-> "run"]
    /\ UNCHANGED <<cls, now, calls, order_blocks>>
    /\ Assigns(Self)

\* HyperliquidClient._on_message, while the websocket is open
ClientOnMessage ==
    \E message \in ManagerMessages :
        LET pairs == ClientPairs(message, 1, callbacks)
        IN  \E outcomes \in [1..Len(pairs) -> ManagerOutcomes] :
                LET made == ClientCallsMade(outcomes)
                    n == ClientMessagesSeen(calls)
                IN  /\ cls = "StrategyManager"
                    /\ pc \in {"loop", "finally"}
                    /\ n < ManagerMaxMessages
                    \* outcomes of calls that are not made are not enumerated
                    /\ \A j \in (made + 1)..Len(pairs) : outcomes[j] = "ok"
                    /\ tick' = [op |-> "on_message", message |-> message, outcomes |-> outcomes,
                                n |-> n + 1]
                    /\ calls' = calls \o [j \in 1..made |->
                                              <<"callback", n + 1, pairs[j][1], pairs[j][2]>>]
                    /\ book' = ClientBookAfter(book, pairs, outcomes, made)
                    /\ UNCHANGED <<cls, now, pc, order_blocks, callbacks>>
                    /\ Assigns(Self)

\* one pass of the while loop of run(); on_minute: datetime.now().second == 0
ManagerPoll ==
    \E on_minute \in BOOLEAN :
        LET elapsed == now >= ManagerDuration
            limit == ManagerLimitReached(ManagerSum(book))
        IN  /\ cls = "StrategyManager"
            /\ pc = "loop"
            /\ elapsed => ~on_minute
            /\ tick' = [op |-> "poll", on_minute |-> on_minute]
            /\ calls' = IF on_minute THEN Append(calls, <<"print_results">>) ELSE calls
            /\ pc' = IF elapsed \/ limit THEN "finally" ELSE "loop"
            /\ now' = IF elapsed \/ limit THEN now ELSE now + 1
            /\ UNCHANGED <<cls, book, order_blocks, callbacks>>
            /\ Assigns(Self)

\* KeyboardInterrupt raised in the try block of run()
ManagerKeyboardInterrupt ==
    /\ cls = "StrategyManager"
    /\ pc = "loop"
    /\ pc' = "finally"
    /\ tick' = [op |-> "KeyboardInterrupt"]
    /\ UNCHANGED <<cls, now, calls, book, order_blocks, callbacks>>
    /\ Assigns(Self)

\* finally: self.client.close()
ManagerClientClose ==
    /\ cls = "StrategyManager"
    /\ pc = "finally"
    /\ pc' = "closed"
    /\ calls' = Append(calls, <<"close">>)
    /\ tick' = [op |-> "close"]
    /\ UNCHANGED <<cls, now, book, order_blocks, callbacks>>
    /\ Assigns(Self)

\* finally: self.print_final_results(), after which run() returns
ManagerPrintFinalResults ==
    /\ cls = "StrategyManager"
    /\ pc = "closed"
    /\ pc' = "done"
    /\ calls' = Append(calls, <<"print_final_results">>)
    /\ tick' = [op |-> "print_final_results"]
    /\ UNCHANGED <<cls, now, book, order_blocks, callbacks>>
    /\ Assigns(Self)

ManagerNext ==
    \/ ManagerRun
    \/ ClientOnMessage
    \/ ManagerPoll
    \/ ManagerKeyboardInterrupt
    \/ ManagerClientClose
    \/ ManagerPrintFinalResults

SpecManager == ManagerInit /\ [][ManagerNext]_vars

\* the main thread goes on: the statements of the finally block are executed
SpecManagerFair ==
    /\ ManagerInit
    /\ [][ManagerNext]_vars
    /\ WF_vars(ManagerClientClose)
    /\ WF_vars(ManagerPrintFinalResults)

----------------------------------------------------------------------------
(***************************************************************************)
(* Direct calls of close_position (OptimizedBreakoutStrategy and           *)
(* MACDVolumeStrategy).  close_position is a public method; the call is    *)
(* made by the owner of the instance, once, when it stops feeding ticks,   *)
(* with any object as price.  fault names the statement of the try block   *)
(* that raises: "compute", the first                                       *)
(* one (price is no number: None - float raises TypeError); "format", a     *)
(* logging f-string (price is a number without a float format, such as a   *)
(* fractions.Fraction before Python 3.12); "none", no statement raises.     *)
(***************************************************************************)
CloseFaults == {"none", "compute", "format"}

BreakoutCloseStuck(s) == s

\* the except branch of close_position
BreakoutCloseFailed(s) == [s EXCEPT !.position = 0, !.position_size = 0]

\* close_position(price, reason); for "format" every statement before the logging ran
BreakoutClosePositionCall(s, price, fault) ==
    IF s.position = 0 THEN s
    ELSE IF fault = "compute" THEN BreakoutCloseFailed(s)
    ELSE IF fault = "format"
         THEN BreakoutCloseFailed([BreakoutClosePosition(s, price) EXCEPT
                                       !.position = s.position,
                                       !.position_size = s.position_size,
                                       !.entry_price = s.entry_price])
    ELSE BreakoutClosePosition(s, price)

\* the except branch of close_position
MACDCloseFailed(s) == [s EXCEPT !.position = 0, !.position_size = 0]

\* close_position(price, reason); for "format" only daily_loss += net_pnl ran
MACDClosePositionCall(s, price, fault) ==
    IF s.position = 0 THEN s
    ELSE IF fault = "compute" THEN MACDCloseFailed(s)
    ELSE IF fault = "format"
         THEN MACDCloseFailed([s EXCEPT !.daily_loss = MACDClosePosition(s, price).daily_loss])
    ELSE MACDClosePosition(s, price)

BreakoutClose ==
    \E price \in BreakoutPrices, fault \in CloseFaults :
        /\ cls = "OptimizedBreakoutStrategy"
        /\ position # 0
        /\ calls = <<>>
        /\ UNCHANGED <<cls, now, pc, book, order_blocks, callbacks>>
        /\ calls' = Append(calls, "close_position")
        /\ tick' = [price |-> price, signal |-> "NONE", fault |-> fault]
        /\ Assigns(BreakoutClosePositionCall(Self, price, fault))

MACDClose ==
    \E price \in MACDPrices, fault \in CloseFaults :
        /\ cls = "MACDVolumeStrategy"
        /\ position # 0
        /\ calls = <<>>
        /\ UNCHANGED <<cls, now, pc, book, order_blocks, callbacks>>
        /\ calls' = Append(calls, "close_position")
        /\ tick' = [price |-> price, signal |-> "NONE", fault |-> fault]
        /\ Assigns(MACDClosePositionCall(Self, price, fault))

CloseInit == BreakoutInit \/ MACDInit

CloseNext ==
    \/ calls = <<>> /\ BreakoutUpdate
    \/ calls = <<>> /\ MACDUpdate
    \/ BreakoutClose
    \/ MACDClose

SpecClose == CloseInit /\ [][CloseNext]_vars

----------------------------------------------------------------------------
(***************************************************************************)
(* The end of a session of the test bot of bidirectional_strategy.py:      *)
(* TestBot.run leaves its wait loop (duration elapsed or running cleared), *)
(* closes the websocket and logs the trade summary of trade_logger.py.     *)
(***************************************************************************)
\* t.get('pnl', 0)
TradePnl(tr) == IF "pnl" \in DOMAIN tr THEN tr.pnl ELSE 0

\* log_trade_summary: the counts of the TRADE STATISTICS block
LogTradeSummary(trs) ==
    [ op |-> "log_trade_summary",
      total |-> Len(trs),
      winning |-> Cardinality({i \in 1..Len(trs) : TradePnl(trs[i]) > 0}),
      losing |-> Cardinality({i \in 1..Len(trs) : TradePnl(trs[i]) < 0}),
      break_even |-> Cardinality({i \in 1..Len(trs) : TradePnl(trs[i]) = 0}) ]

\* TestBot.run, from the end of the wait loop on
BidirRun ==
    /\ cls = "BidirectionalStrategy"
    /\ pc = "-"
    /\ pc' = "done"
    /\ calls' = IF trades = <<>> THEN Append(calls, [op |-> "close"])
                ELSE calls \o <<[op |-> "close"], LogTradeSummary(trades)>>
    /\ UNCHANGED <<cls, now, tick, book, order_blocks, callbacks>>
    /\ Assigns(Self)

\* ticks are delivered until the websocket is closed
SessionNext ==
    \/ pc = "-" /\ BidirExecuteTrade
    \/ BidirRun

SpecSession == BidirInit /\ [][SessionNext]_vars

----------------------------------------------------------------------------
(***************************************************************************)
(* VolumeStrategy (trading_strategies.py); AggressiveScalper has the same  *)
(* execute_trade with other indicators.  The clock of this class is the    *)
(* time stamp of the tick (current_time); several ticks can carry the same *)
(* time stamp.  The tick's inputs: the price; spike, volume / volume_ma >   *)
(* volume_threshold; ma_rel, the sign of price - price_ma.                 *)
(***************************************************************************)
VolInitialCapital == 100000
VolLeverage == 50
VolWarmup == 5
VolProfitTarget == 15
VolStopLoss == -10
VolTimeLimit == 30
VolTradeCooldown == 6
VolTakerFee == 5
NoTime == -1
VolPrices == {9980, 10000, 10020}
VolMaRels == {-1, 1}
VolClockSteps == {0, VolTradeCooldown}

\* if self.last_trade_time and (current_time - self.last_trade_time) < self.trade_cooldown
VolCoolingDown(s, t) == s.last_trade_time # NoTime /\ t - s.last_trade_time < VolTradeCooldown

\* the entry logic of execute_trade
VolEnter(s, price, spike, ma_rel, t) ==
    IF ~spike \/ ma_rel = 0 \/ Len(s.trades) >= VolMaxTrades THEN s
    ELSE [s EXCEPT !.position = ma_rel,
                   !.entry_price = price,
                   !.last_trade_time = t,
                   !.trades = Append(@, [type |-> IF ma_rel = 1 THEN "LONG" ELSE "SHORT",
                                         entry_price |-> price,
                                         entry_time |-> t,
                                         size |-> s.portfolio_value * VolLeverage])]

\* current_pnl >= profit_target or current_pnl <= stop_loss, current_pnl in percent
VolTargetOrStop(position_side, entry, price) ==
    LET d == IF position_side = 1 THEN price - entry ELSE entry - price
    IN  \/ d * 100 * PctScale >= VolProfitTarget * entry
        \/ d * 100 * PctScale <= VolStopLoss * entry

\* the exit logic of execute_trade
VolExit(s, price, ma_rel, t) ==
    LET d == IF s.position = 1 THEN price - s.entry_price ELSE s.entry_price - price
        open == s.trades[Len(s.trades)]
        time_limit == t - open.entry_time > VolTimeLimit
        ma_cross == (s.position = 1 /\ ma_rel < 0) \/ (s.position = -1 /\ ma_rel > 0)
        profit == d * 100 * PctScale >= VolProfitTarget * s.entry_price
        loss == d * 100 * PctScale <= VolStopLoss * s.entry_price
        fees == MulDiv(open.size, VolTakerFee, RateScale)
        gross == IF d >= 0 THEN MulDiv(open.size, d, s.entry_price)
                 ELSE -MulDiv(open.size, -d, s.entry_price)
    IN  IF ~(VolTargetOrStop(s.position, s.entry_price, price) \/ time_limit \/ ma_cross)
        THEN s
        ELSE [s EXCEPT
                !.trades = LastUpdated(@,
                    [exit_price |-> price, exit_time |-> t, pnl |-> gross - fees,
                     pnl_pct |-> (d * 100 * PctScale) \div s.entry_price,
                     exit_reason |-> IF profit THEN "Profit Target"
                                     ELSE IF loss THEN "Stop Loss"
                                     ELSE IF time_limit THEN "Time Limit"
                                     ELSE "MA Cross",
                     fees |-> fees]),
                !.portfolio_value = @ + (gross - fees),
                !.position = 0,
                !.entry_price = 0]

\* execute_trade(price, current_time, volume) for a tick stamped t
VolExecuteTradeResult(s0, price, spike, ma_rel, t) ==
    LET s == [s0 EXCEPT !.price_len = Min(@ + 1, VolWarmup)]
    IN  IF s.price_len < VolWarmup THEN s
        ELSE IF VolCoolingDown(s, t) THEN s
        ELSE IF s.position = 0 THEN VolEnter(s, price, spike, ma_rel, t)
        ELSE VolExit(s, price, ma_rel, t)

VolInit ==
    /\ cls = "VolumeStrategy"
    /\ now = 0
    /\ tick = [price |-> 0, spike |-> FALSE, ma_rel |-> 1]
    /\ Starts([Fresh(VolInitialCapital, 0) EXCEPT !.last_trade_time = NoTime])

VolExecuteTrade ==
    \E price \in VolPrices, spike \in BOOLEAN, ma_rel \in VolMaRels, dt \in VolClockSteps :
        /\ cls = "VolumeStrategy"
        /\ now + dt <= VolMaxTime
        \* inputs the call does not read are not enumerated
        /\ (price_len + 1 < VolWarmup \/ position # 0) => ~spike
        /\ price_len + 1 < VolWarmup => (ma_rel = 1 /\ dt = 0)
        /\ UNCHANGED cls
        /\ now' = now + dt
        /\ tick' = [price |-> price, spike |-> spike, ma_rel |-> ma_rel]
        /\ Becomes(VolExecuteTradeResult(Self, price, spike, ma_rel, now + dt))

VolNext == VolExecuteTrade

SpecVol == VolInit /\ [][VolNext]_vars

----------------------------------------------------------------------------
(***************************************************************************)
(* The loss-streak bookkeeping of close_position (OptimizedBreakout- and   *)
(* OrderBlockStrategy) as a function of the net PnL of the close.  The net *)
(* PnL is raw_pnl - total_fees for the fee rates given to the constructor; *)
(* it is 0 for a position closed at its entry price with fee rates 0.      *)
(***************************************************************************)
StreakNetPnls == (-30)..30

StreakInit ==
    /\ cls = "OptimizedBreakoutStrategy"
    /\ now = 0
    /\ tick = [net_pnl |-> 0]
    /\ Starts(Fresh(BreakoutInitialCapital, 0))

\* the update of consecutive_losses by a close with the given net PnL; a position
\* is only open if the streak was below 3 when it was entered
StreakClose ==
    \E net_pnl \in StreakNetPnls :
        /\ cls = "OptimizedBreakoutStrategy"
        /\ ~BreakoutStreakReached(Self)
        /\ UNCHANGED <<cls, now>>
        /\ tick' = [net_pnl |-> net_pnl]
        /\ Becomes([Self EXCEPT !.consecutive_losses = BreakoutStreak(@, net_pnl)])

StreakNext == StreakClose

SpecStreak == StreakInit /\ [][StreakNext]_vars

----------------------------------------------------------------------------
(* The start of StrategyManager.run (multi_strategy_manager.py) and the    *)
(* websocket thread of HyperliquidClient.connect (hyperliquid_client.py),  *)
(* statement by statement: the main thread and the feed thread interleave. *)

\* whether the log holds an entry of the given kind
ConnectLogged(log, kind) == \E j \in 1..Len(log) : log[j][1] = kind

\* the number of messages the feed thread has handled
ConnectMessagesSeen(log) == Cardinality({j \in 1..Len(log) : log[j][1] = "message"})

ConnectInit ==
    /\ cls = "StrategyManager"
    /\ now = 0
    /\ tick = [op |-> "__init__"]
    /\ Starts(Fresh(0, 0))

\* connect(): the WebSocketApp is built and its thread started; the caller waits
ConnectCall ==
    /\ cls = "StrategyManager"
    /\ pc = "-"
    /\ pc' = "connect"
    /\ calls' = Append(calls, <<"start">>)
    /\ tick' = [op |-> "connect"]
    /\ UNCHANGED <<cls, now, book, order_blocks, callbacks>>
    /\ Assigns(Self)

\* _on_open on the feed thread: self.connected = True
ConnectOnOpen ==
    /\ cls = "StrategyManager"
    /\ ConnectLogged(calls, "start")
    /\ ~ConnectLogged(calls, "connected")
    /\ ~ConnectLogged(calls, "error")
    /\ calls' = Append(calls, <<"connected">>)
    /\ tick' = [op |-> "on_open"]
    /\ UNCHANGED <<cls, now, pc, book, order_blocks, callbacks>>
    /\ Assigns(Self)

\* _on_open on the feed thread: ws.send(subscribe_message)
ConnectSubscribe ==
    /\ cls = "StrategyManager"
    /\ ConnectLogged(calls, "connected")
    /\ ~ConnectLogged(calls, "subscribe")
    /\ calls' = Append(calls, <<"subscribe">>)
    /\ tick' = [op |-> "send"]
    /\ UNCHANGED <<cls, now, pc, book, order_blocks, callbacks>>
    /\ Assigns(Self)

\* connect() returns: the wait loop has seen self.connected
ConnectReturn ==
    /\ cls = "StrategyManager"
    /\ pc = "connect"
    /\ ConnectLogged(calls, "connected")
    /\ pc' = "register"
    /\ tick' = [op |-> "connected"]
    /\ UNCHANGED <<cls, now, calls, book, order_blocks, callbacks>>
    /\ Assigns(Self)

\* one pass of "for strategy in self.strategies: add_trade_callback(...)"; after the
\* last pass run() takes the start time and enters its loop
ConnectAddTradeCallback ==
    LET k == Len(callbacks) + 1
    IN  /\ cls = "StrategyManager"
        /\ pc = "register"
        /\ callbacks' = Append(callbacks, ManagerStrategies[k])
        /\ pc' = IF k = Len(ManagerStrategies) THEN "loop" ELSE "register"
        /\ tick' = [op |-> "add_trade_callback"]
        /\ UNCHANGED <<cls, now, calls, book, order_blocks>>
        /\ Assigns(Self)

\* _on_message on the feed thread, no callback raising: for every well-formed trade
\* of the message the callbacks registered at that moment are called in order
ConnectOnMessage ==
    \E message \in ManagerMessages :
        LET n == ConnectMessagesSeen(calls) + 1
            pairs == ClientPairs(message, 1, callbacks)
        IN  /\ cls = "StrategyManager"
            /\ ConnectLogged(calls, "subscribe")
            /\ n <= ConnectMaxMessages
            /\ calls' = calls \o <<<<"message", n, message>>>>
                              \o [j \in 1..Len(pairs) |->
                                      <<"callback", n, pairs[j][1], pairs[j][2]>>]
            /\ tick' = [op |-> "on_message", message |-> message, n |-> n]
            /\ UNCHANGED <<cls, now, pc, book, order_blocks, callbacks>>
            /\ Assigns(Self)

ConnectNext ==
    \/ ConnectCall
    \/ ConnectOnOpen
    \/ ConnectSubscribe
    \/ ConnectReturn
    \/ ConnectAddTradeCallback
    \/ ConnectOnMessage

SpecConnect == ConnectInit /\ [][ConnectNext]_vars

\* the connection attempt fails: _on_error prints the error, run_forever returns and
\* the websocket thread ends; self.connected keeps the value it has
ConnectOnError ==
    /\ cls = "StrategyManager"
    /\ ConnectLogged(calls, "start")
    /\ ~ConnectLogged(calls, "connected")
    /\ ~ConnectLogged(calls, "error")
    /\ calls' = Append(calls, <<"error">>)
    /\ tick' = [op |-> "on_error"]
    /\ UNCHANGED <<cls, now, pc, book, order_blocks, callbacks>>
    /\ Assigns(Self)

ConnectFailNext == ConnectNext \/ ConnectOnError

\* both threads go on whenever they have a step to take; the wait loop of connect()
\* changes nothing while self.connected is False
SpecConnectFair ==
    /\ ConnectInit
    /\ [][ConnectFailNext]_vars
    /\ WF_vars(ConnectFailNext)

----------------------------------------------------------------------------
(* RSIBollingerStrategy under MultiStrategyTester (multi_strategy_tester.py): *)
(* the websocket thread runs update() while the main thread runs              *)
(* print_status(); no lock is taken, so the main thread can run between any   *)
(* two statements of close_position. pc is the line of close_position the     *)
(* feed thread stands at ("-" outside it) and calls holds its frame.          *)

\* the lines of close_position that assign an attribute, in order
SnapshotLines == <<"194", "195", "198", "199", "200", "201", "213">>

\* the line after the given one ("-" after the last: close_position returns)
SnapshotLineAfter(line) ==
    LET k == CHOOSE j \in 1..Len(SnapshotLines) : SnapshotLines[j] = line
    IN  IF k = Len(SnapshotLines) THEN "-" ELSE SnapshotLines[k + 1]

\* the statement of close_position at the given line, with the frame's locals
SnapshotStatement(s, line, frame) ==
    IF line = "194" THEN [s EXCEPT !.current_capital = @ + frame.net_pnl]
    ELSE IF line = "195" THEN [s EXCEPT !.daily_loss = @ + frame.net_pnl]
    ELSE IF line = "198" THEN [s EXCEPT !.total_pnl = @ + frame.net_pnl]
    ELSE IF line = "199" THEN [s EXCEPT !.total_fees = @ + frame.total_fees]
    ELSE IF line = "200" THEN [s EXCEPT !.total_trades = @ + 1]
    ELSE IF line = "201" THEN [s EXCEPT !.winning_trades = IF frame.net_pnl > 0 THEN @ + 1 ELSE @]
    ELSE [s EXCEPT !.position = 0, !.position_size = 0, !.entry_price = 0]

\* get_metrics(), without the win rate
SnapshotGetMetricsResult(s) ==
    [total_trades |-> s.total_trades, total_pnl |-> s.total_pnl,
     total_fees |-> s.total_fees, current_capital |-> s.current_capital]

\* update(price) on the feed thread, up to the first assignment of close_position
\* if the call closes the position and to its end if not
SnapshotUpdate ==
    \E price \in RSIBPrices, rsi \in RSIBRsiValues, band \in RSIBBands,
       dt \in RSIBClockSteps :
        LET after == RSIBUpdateResult(Self, price, rsi, band, now + dt)
            closes == after.total_trades # total_trades
        IN  /\ cls = "RSIBollingerStrategy"
            /\ pc = "-"
            /\ Date(now + dt) <= RSIBMaxDay
            /\ dt = RSIBTradeCooldown =>
                    /\ now - last_trade_time < RSIBTradeCooldown
                    /\ (now + dt) % SecondsPerDay <= RSIBMaxTrades * RSIBTradeCooldown
            /\ price_len + 1 < Max(RSIBRsiPeriod, RSIBBollingerPeriod) =>
                    (rsi = 50 /\ band = 0 /\ dt = 0)
            /\ position # 0 => band = 0
            /\ now' = now + dt
            /\ tick' = [price |-> price, signal |-> RSIBSignal(rsi, band), rsi |-> rsi]
            /\ pc' = IF closes THEN SnapshotLines[1] ELSE "-"
            /\ calls' = IF closes
                        THEN <<[op |-> "close_position",
                                net_pnl |-> after.total_pnl - total_pnl,
                                total_fees |-> after.total_fees - total_fees]>>
                        ELSE <<>>
            /\ Assigns(IF closes THEN [Self EXCEPT !.price_len = after.price_len] ELSE after)
            /\ UNCHANGED <<cls, book, order_blocks, callbacks>>

\* the next assignment of close_position on the feed thread
SnapshotStep ==
    /\ cls = "RSIBollingerStrategy"
    /\ pc # "-"
    /\ pc' = SnapshotLineAfter(pc)
    /\ calls' = IF SnapshotLineAfter(pc) = "-" THEN <<>> ELSE calls
    /\ UNCHANGED <<cls, now, tick, book, order_blocks, callbacks>>
    /\ Assigns(SnapshotStatement(Self, pc, calls[1]))

\* print_status() on the main thread: metrics = strategy.get_metrics()
SnapshotPrintStatus ==
    /\ cls = "RSIBollingerStrategy"
    /\ price_len > 0
    /\ tick' = [op |-> "get_metrics", metrics |-> SnapshotGetMetricsResult(Self)]
    /\ UNCHANGED <<cls, now, calls, pc, book, order_blocks, callbacks>>
    /\ Assigns(Self)

SnapshotNext == SnapshotUpdate \/ SnapshotStep \/ SnapshotPrintStatus

SpecSnapshot == RSIBInit /\ [][SnapshotNext]_vars

----------------------------------------------------------------------------
(* MomentumStrategy.calculate_rsi (trading_strategies.py), as a function   *)
(* of the last rsi_period price changes. The rolling means depend on the   *)
(* sums of the rises and of the falls only, so a window is given by how    *)
(* many of its changes are rises and how many are falls of RsiStep         *)
(* dollars; the others are no change. The module-level calculate_rsi of    *)
(* bidirectional_strategy.py and optimized_strategy.py divide the same way.*)

MomentumRsiPeriod == 14
RsiStep == 10
\* the float nan, which is no number: every comparison with it is False
NaN == -1

RsiWindows ==
    {w \in [up : 0..MomentumRsiPeriod, down : 0..MomentumRsiPeriod] :
        w.up + w.down <= MomentumRsiPeriod}

\* gain.rolling(window=self.rsi_period).mean().iloc[-1], in 1/MomentumRsiPeriod dollars
MomentumAvgGain(w) == w.up * RsiStep

\* loss.rolling(window=self.rsi_period).mean().iloc[-1], in 1/MomentumRsiPeriod dollars
MomentumAvgLoss(w) == w.down * RsiStep

\* rs = avg_gain / avg_loss; rsi = 100 - (100 / (1 + rs)), in 1/PctScale of a point.
\* The division is a float division of pandas: x / 0 is inf for x > 0, which gives
\* 100 - 100 / inf = 100, and 0 / 0 is nan, which stays nan; neither raises.
MomentumCalculateRsi(w) ==
    LET avg_gain == MomentumAvgGain(w)
        avg_loss == MomentumAvgLoss(w)
    IN  IF avg_loss = 0
        THEN IF avg_gain = 0 THEN NaN ELSE 100 * PctScale
        ELSE 100 * PctScale - MulDiv(100 * PctScale, avg_loss, avg_loss + avg_gain)

RsiInit ==
    /\ cls = "MomentumStrategy"
    /\ now = 0
    /\ tick = [op |-> "__init__"]
    /\ Starts(Fresh(BaseInitialCapital, 0))

\* calculate_rsi() on a full window
RsiCalculate ==
    \E w \in RsiWindows :
        /\ cls = "MomentumStrategy"
        /\ UNCHANGED <<cls, now>>
        /\ tick' = [op |-> "calculate_rsi", window |-> w, rsi |-> MomentumCalculateRsi(w)]
        /\ Becomes(Self)

RsiNext == RsiCalculate

SpecRsi == RsiInit /\ [][RsiNext]_vars

----------------------------------------------------------------------------
(* VolumeProfileStrategy.update_volume_profile (volume_profile_strategy.py) *)
(* as a function of the window: the last volume_period ticks, each a pair   *)
(* <<price, volume>>. The instance is built with volume_period =            *)
(* ProfilePeriod and price_levels = ProfileLevels. Prices are offsets from  *)
(* ProfileBase in dollars; price results are kept in 1/ProfileLevels of a   *)
(* dollar, so that level * level_height is a whole number.                  *)

ProfileBase == 10000
ProfileOffsets == {0, 1, 2, 4}
ProfileVolumes == {2, 3}
ProfileWindows == [1..ProfilePeriod -> ProfileOffsets \X ProfileVolumes]

\* recent_prices.min() and recent_prices.max()
ProfileMin(window) ==
    CHOOSE p \in {window[i][1] : i \in 1..Len(window)} :
        \A i \in 1..Len(window) : p <= window[i][1]

ProfileMax(window) ==
    CHOOSE p \in {window[i][1] : i \in 1..Len(window)} :
        \A i \in 1..Len(window) : p >= window[i][1]

\* int((price - recent_prices.min()) / level_height), level_height being
\* price_range / price_levels, for price_range > 0
ProfileLevel(price, lo, price_range) == ((price - lo) * ProfileLevels) \div price_range

\* self.volume_profile[level] += volume on a dict kept in insertion order
ProfileAdd(profile, level, volume) ==
    IF \E j \in 1..Len(profile) : profile[j][1] = level
    THEN [j \in 1..Len(profile) |->
            IF profile[j][1] = level THEN <<level, profile[j][2] + volume>> ELSE profile[j]]
    ELSE Append(profile, <<level, volume>>)

\* the "Build volume profile" loop from tick i of the window on
RECURSIVE ProfileBuild(_, _, _)
ProfileBuild(window, i, profile) ==
    IF i > Len(window) THEN profile
    ELSE ProfileBuild(window, i + 1,
             ProfileAdd(profile,
                        ProfileLevel(window[i][1], ProfileMin(window),
                                     ProfileMax(window) - ProfileMin(window)),
                        window[i][2]))

\* the index of max(items, key=volume): the first item of the largest volume
ProfileFirstMax(items) ==
    CHOOSE j \in 1..Len(items) :
        /\ \A h \in 1..Len(items) : items[j][2] >= items[h][2]
        /\ \A h \in 1..(j - 1) : items[h][2] < items[j][2]

\* sorted(items, key=volume, reverse=True): stable, largest volume first
RECURSIVE ProfileSorted(_)
ProfileSorted(items) ==
    IF items = <<>> THEN <<>>
    ELSE LET j == ProfileFirstMax(items)
         IN  <<items[j]>> \o ProfileSorted(SubSeq(items, 1, j - 1)
                                               \o SubSeq(items, j + 1, Len(items)))

\* sum(self.volume_profile.values())
RECURSIVE ProfileTotal(_)
ProfileTotal(items) ==
    IF items = <<>> THEN 0 ELSE items[1][2] + ProfileTotal(Tail(items))

\* the value-area loop from item i on: levels are taken in order until the volume
\* taken reaches total_volume * 0.7
RECURSIVE ProfileValueAreaLevels(_, _, _, _)
ProfileValueAreaLevels(levels, i, current_volume, total_volume) ==
    IF i > Len(levels) THEN {}
    ELSE LET taken == current_volume + levels[i][2]
         IN  {levels[i][1]} \cup
             (IF taken * 10 >= total_volume * 7 THEN {}
              ELSE ProfileValueAreaLevels(levels, i + 1, taken, total_volume))

\* update_volume_profile() on a full window: the attributes it leaves, or the
\* exception it raises. With price_range == 0 level_height is 0.0 and the numpy
\* division 0.0 / 0.0 is nan, of which int() raises ValueError.
UpdateVolumeProfile(window) ==
    LET lo == ProfileMin(window)
        price_range == ProfileMax(window) - lo
        profile == ProfileBuild(window, 1, <<>>)
        max_volume_level == profile[ProfileFirstMax(profile)][1]
        area == ProfileValueAreaLevels(ProfileSorted(profile), 1, 0, ProfileTotal(profile))
        min_level == CHOOSE a \in area : \A b \in area : a <= b
        max_level == CHOOSE a \in area : \A b \in area : a >= b
    IN  IF price_range = 0 THEN [raised |-> "ValueError"]
        ELSE [raised |-> "",
              volume_profile |-> profile,
              poc_level |-> max_volume_level,
              poc_price |-> (ProfileBase + lo) * ProfileLevels + max_volume_level * price_range,
              value_area_levels |-> <<min_level, max_level>>,
              value_area |-> <<(ProfileBase + lo) * ProfileLevels + min_level * price_range,
                               (ProfileBase + lo) * ProfileLevels + max_level * price_range>>]

ProfileInit ==
    /\ cls = "VolumeProfileStrategy"
    /\ now = 0
    /\ tick = [op |-> "__init__"]
    /\ Starts(Fresh(SurgeInitialCapital, 0))

\* update_volume_profile() once price_data holds a full window
ProfileUpdate ==
    \E window \in ProfileWindows :
        /\ cls = "VolumeProfileStrategy"
        /\ UNCHANGED <<cls, now>>
        /\ tick' = [op |-> "update_volume_profile", window |-> window,
                    result |-> UpdateVolumeProfile(window)]
        /\ Becomes(Self)

ProfileNext == ProfileUpdate

SpecProfile == ProfileInit /\ [][ProfileNext]_vars

----------------------------------------------------------------------------
(* SupportResistanceStrategy.group_levels (support_resistance_strategy.py); *)
(* OptimizedBreakoutStrategy.group_levels has the same statements. Levels   *)
(* are prices in cents, the threshold is in 1/RateScale.                    *)

GroupThreshold == 20
GroupLevelChoices == {1000000, 1001000, 1002000, 1003000, 1005100}
GroupInputs == UNION {[1..n -> GroupLevelChoices] : n \in 0..GroupMaxLevels}

\* sorted(levels)
RECURSIVE GroupSorted(_)
GroupSorted(levels) ==
    IF levels = <<>> THEN <<>>
    ELSE LET j == CHOOSE h \in 1..Len(levels) : \A g \in 1..Len(levels) : levels[h] <= levels[g]
         IN  <<levels[j]>> \o GroupSorted(SubSeq(levels, 1, j - 1)
                                              \o SubSeq(levels, j + 1, Len(levels)))

\* sum(current_group)
RECURSIVE GroupSum(_)
GroupSum(group) == IF group = <<>> THEN 0 ELSE group[1] + GroupSum(Tail(group))

\* sum(current_group) / len(current_group), rounded down to the cent
GroupAverage(group) == GroupSum(group) \div Len(group)

\* sorted levels as they are, one group per level
GroupUnmerged(levels, threshold) == GroupSorted(levels)

\* the loop over levels[1:] from index i on, and the append after it
RECURSIVE GroupLoop(_, _, _, _, _)
GroupLoop(levels, i, current_group, grouped, threshold) ==
    IF i > Len(levels) THEN Append(grouped, GroupAverage(current_group))
    ELSE LET last == current_group[Len(current_group)]
         IN  IF (levels[i] - last) * RateScale <= threshold * last
             THEN GroupLoop(levels, i + 1, Append(current_group, levels[i]), grouped, threshold)
             ELSE GroupLoop(levels, i + 1, <<levels[i]>>,
                            Append(grouped, GroupAverage(current_group)), threshold)

\* group_levels(levels, threshold)
GroupLevels(levels, threshold) ==
    IF levels = <<>> THEN <<>>
    ELSE LET sorted == GroupSorted(levels)
         IN  GroupLoop(sorted, 2, <<sorted[1]>>, <<>>, threshold)

GroupInit ==
    /\ cls = "SupportResistanceStrategy"
    /\ now = 0
    /\ tick = [op |-> "__init__"]
    /\ Starts(Fresh(SurgeInitialCapital, 0))

\* a call of group_levels(levels) with the default threshold
GroupLevelsCall ==
    \E levels \in GroupInputs :
        /\ cls = "SupportResistanceStrategy"
        /\ UNCHANGED <<cls, now>>
        /\ tick' = [op |-> "group_levels", levels |-> levels,
                    grouped |-> GroupLevels(levels, GroupThreshold)]
        /\ Becomes(Self)

GroupNext == GroupLevelsCall

SpecGroup == GroupInit /\ [][GroupNext]_vars

----------------------------------------------------------------------------
(* MegaTrendStrategy (mega_trend_strategy.py). The EMAs and the scores of   *)
(* calculate_trend_strength are inputs of a tick: the order of the EMAs and *)
(* the sum of the volume and momentum scores.                               *)

MegaInitialCapital == 20000
MegaLeverage == 50
MegaEmaSlow == 55
MegaProfitTarget == 150
MegaStopLoss == -50
MegaTradeCooldown == 3600
MegaMakerFee == -2
MegaTakerFee == 5
MegaMaxDailyLoss == MegaInitialCapital \div 10
MegaMinStrength == 80
MegaReversalStrength == 50
MegaSignalsNeeded == 3
MegaPrices == {9990, 10000, 10040}
MegaEmaOrders == {"aligned", "fast_above", "fast_below"}
MegaScores == {0, 30, 50}
MegaClockSteps == {0, MegaTradeCooldown}

\* calculate_trend_strength: ema_score + volume_score + momentum_score
MegaTrendStrength(ema_order, score) == (IF ema_order = "aligned" THEN 50 ELSE 0) + score

\* calculate_position_size(price): 40 % of capital, scaled by the trend strength
MegaCalculatePositionSize(s, price, strength) ==
    IF s.daily_loss <= -MegaMaxDailyLoss THEN 0
    ELSE MulDiv(MulDiv(s.current_capital * 4 * MegaLeverage, strength, 1000), SizeScale, price)

\* enter_position(price, "LONG") at wall-clock time t
MegaEnterPosition(s, price, strength, t) ==
    LET size == MegaCalculatePositionSize(s, price, strength)
    IN  IF size = 0 THEN [s EXCEPT !.position_size = 0]
        ELSE [s EXCEPT !.position_size = size,
                       !.position = 1,
                       !.entry_price = price,
                       !.last_trade_time = t]

\* whether _check_entry_conditions gets past the cooldown and the strength test
MegaEntryChecked(s, strength, t) ==
    /\ t - s.last_trade_time >= MegaTradeCooldown
    /\ strength >= MegaMinStrength

\* _check_entry_conditions(price) at wall-clock time t
MegaCheckEntry(s, price, ema_order, strength, t) ==
    IF ~MegaEntryChecked(s, strength, t) THEN s
    ELSE IF ema_order = "aligned"
         THEN LET s1 == [s EXCEPT !.consecutive_signals = @ + 1]
              IN  IF s1.consecutive_signals >= MegaSignalsNeeded
                  THEN MegaEnterPosition(s1, price, strength, t)
                  ELSE s1
         ELSE [s EXCEPT !.consecutive_signals = 0]

\* the try block of close_position
MegaClosePosition(s, price) ==
    LET d == IF s.position < 0 THEN s.entry_price - price ELSE price - s.entry_price
        position_value == MulDiv(s.position_size, s.entry_price, SizeScale)
        raw_pnl == IF d >= 0 THEN MulDiv(position_value, d * MegaLeverage, s.entry_price)
                   ELSE -MulDiv(position_value, -d * MegaLeverage, s.entry_price)
        fees == MulDiv(position_value, Abs(MegaMakerFee) + Abs(MegaTakerFee), RateScale)
        net_pnl == raw_pnl - fees
    IN  [s EXCEPT !.current_capital = @ + net_pnl,
                  !.daily_loss = @ + net_pnl,
                  !.total_pnl = @ + net_pnl,
                  !.total_fees = @ + fees,
                  !.total_trades = @ + 1,
                  !.winning_trades = IF net_pnl > 0 THEN @ + 1 ELSE @,
                  !.position = 0,
                  !.position_size = 0,
                  !.entry_price = 0,
                  !.consecutive_signals = 0]

\* _check_exit_conditions(price)
MegaCheckExit(s, price, ema_order, strength) ==
    LET d == IF s.position < 0 THEN s.entry_price - price ELSE price - s.entry_price
        hit_profit == d * MegaLeverage * RateScale >= MegaProfitTarget * s.entry_price
        hit_stop == d * MegaLeverage * RateScale <= MegaStopLoss * s.entry_price
        trend_reversal == strength < MegaReversalStrength \/ ema_order = "fast_below"
    IN  IF hit_profit \/ hit_stop \/ trend_reversal THEN MegaClosePosition(s, price) ELSE s

\* update(price, volume) called at wall-clock time t
MegaUpdateResult(s0, price, ema_order, score, t) ==
    LET s == [s0 EXCEPT !.price_len = Min(@ + 1, MegaEmaSlow)]
        strength == MegaTrendStrength(ema_order, score)
    IN  IF s.price_len < MegaEmaSlow THEN s
        ELSE IF s.position # 0 THEN MegaCheckExit(s, price, ema_order, strength)
        ELSE MegaCheckEntry(s, price, ema_order, strength, t)

MegaInit ==
    /\ cls = "MegaTrendStrategy"
    /\ now = 0
    /\ tick = [price |-> 0, ema_order |-> "fast_below", score |-> 0, run |-> 0]
    /\ Starts(Fresh(MegaInitialCapital, 0))

\* tick.run is history: the number, up to MegaSignalsNeeded, of calls in a row up to
\* this one that each reached and passed the cooldown check, the strength test and
\* the EMA alignment test of _check_entry_conditions
MegaUpdate ==
    \E price \in MegaPrices, ema_order \in MegaEmaOrders, score \in MegaScores,
       dt \in MegaClockSteps :
        LET t == now + dt
            strength == MegaTrendStrength(ema_order, score)
            checked == /\ price_len + 1 >= MegaEmaSlow
                       /\ position = 0
                       /\ MegaEntryChecked(Self, strength, t)
                       /\ ema_order = "aligned"
        IN  /\ cls = "MegaTrendStrategy"
            /\ total_trades < MegaMaxTrades
            /\ consecutive_signals <= MegaMaxSignals
            \* the clock is stepped by the cooldown only while the cooldown runs
            /\ dt = MegaTradeCooldown => now - last_trade_time < MegaTradeCooldown
            \* inputs the call does not read are not enumerated
            /\ price_len + 1 < MegaEmaSlow =>
                    (price = 10000 /\ ema_order = "fast_below" /\ score = 0 /\ dt = 0)
            /\ UNCHANGED cls
            /\ now' = t
            /\ tick' = [price |-> price, ema_order |-> ema_order, score |-> score,
                        run |-> IF checked THEN Min(tick.run + 1, MegaSignalsNeeded) ELSE 0]
            /\ Becomes(MegaUpdateResult(Self, price, ema_order, score, t))

MegaNext == MegaUpdate

SpecMega == MegaInit /\ [][MegaNext]_vars

----------------------------------------------------------------------------
(* HyperliquidAPI (run_bot.py) with the strategy it drives, a subclass of  *)
(* strategies.BaseStrategy: the websocket thread appends feed trades to    *)
(* self.trades (book here), the main thread calls process_trades once a    *)
(* minute. The clock counts minutes; the signal that generate_signals puts *)
(* on the latest candle is an input.                                       *)

RunBotCandleMinutes == 5

\* the 5-minute candle a feed trade falls into (resample('5min'))
RunBotCandle(trade) == trade.timestamp \div RunBotCandleMinutes

RunBotInit ==
    /\ cls = "HyperliquidAPI"
    /\ now = 0
    /\ tick = [op |-> "__init__"]
    /\ Starts(Fresh(BaseInitialCapital, 0))

\* run(), up to the while loop: the websocket thread is started
RunBotRun ==
    /\ cls = "HyperliquidAPI"
    /\ pc = "-"
    /\ pc' = "loop"
    /\ tick' = [op |-> "run"]
    /\ UNCHANGED <<cls, now, calls, book, order_blocks, callbacks>>
    /\ Assigns(Self)

\* on_message on the websocket thread, for a message of one well-formed trade
RunBotOnMessage ==
    \E price \in BasePrices :
        /\ cls = "HyperliquidAPI"
        /\ pc = "loop"
        /\ Len(book) < RunBotMaxFeed
        /\ book' = Append(book, [timestamp |-> now, price |-> price])
        /\ tick' = [op |-> "on_message", price |-> price]
        /\ UNCHANGED <<cls, now, calls, pc, order_blocks, callbacks>>
        /\ Assigns(Self)

\* one pass of the while loop of run(): process_trades(), then time.sleep(60).
\* process_trades builds the candles from all of self.trades and passes the close
\* and the signal of the latest candle to strategy.execute_trade
RunBotProcessTrades ==
    \E signal \in BaseSignals :
        LET latest == book[Len(book)]
        IN  /\ cls = "HyperliquidAPI"
            /\ pc = "loop"
            /\ now < RunBotDuration
            \* the signal is not read when there is no candle
            /\ book = <<>> => signal = 0
            /\ UNCHANGED <<cls, pc, book, order_blocks, callbacks>>
            /\ now' = now + 1
            /\ tick' = [op |-> "process_trades", signal |-> signal]
            /\ calls' = IF book = <<>> THEN calls
                        ELSE Append(calls, <<"execute_trade", RunBotCandle(latest),
                                             latest.price, signal>>)
            /\ Assigns(IF book = <<>> THEN Self
                       ELSE BaseExecuteTradeResult(Self, latest.price, signal))

\* the loop has run for the duration: self.ws.close() and save_results()
RunBotFinish ==
    /\ cls = "HyperliquidAPI"
    /\ pc = "loop"
    /\ now >= RunBotDuration
    /\ pc' = "done"
    /\ calls' = calls \o <<<<"close">>, <<"save_results">>>>
    /\ tick' = [op |-> "close"]
    /\ UNCHANGED <<cls, now, book, order_blocks, callbacks>>
    /\ Assigns(Self)

RunBotNext ==
    \/ RunBotRun
    \/ RunBotOnMessage
    \/ RunBotProcessTrades
    \/ RunBotFinish

SpecRunBot == RunBotInit /\ [][RunBotNext]_vars

----------------------------------------------------------------------------
(* The two risk-controlled update()/close_position() classes together *)

RiskInit == SurgeInit \/ BreakoutInit

RiskNext == SurgeNext \/ BreakoutNext

SpecRisk == RiskInit /\ [][RiskNext]_vars

\* VolumeSurgeStrategy under a feed that keeps delivering ticks

\* one instance of either class that guards its entries by the held position
ExclusiveInit == BidirInit \/ BreakoutInit

ExclusiveNext == BidirNext \/ BreakoutNext

SpecExclusive == ExclusiveInit /\ [][ExclusiveNext]_vars

SpecSurgeFair == SurgeInit /\ [][SurgeNext]_vars /\ WF_vars(SurgeNext)

----------------------------------------------------------------------------
(* Claims *)

\* the configuration of the instance's class
Leverage == IF cls = "VolumeSurgeStrategy" THEN SurgeLeverage ELSE BreakoutLeverage

MakerFee == IF cls = "VolumeSurgeStrategy" THEN SurgeMakerFee ELSE BreakoutMakerFee

TakerFee == IF cls = "VolumeSurgeStrategy" THEN SurgeTakerFee ELSE BreakoutTakerFee

\* daily_loss as the call at the new clock value sees it after its lazy daily reset
DailyLossAfterReset == IF Date(now') # last_reset_day THEN 0 ELSE daily_loss

\* C3: every close_position of an open position books rawPnl - totalFees to capital,
\* daily_loss and total_pnl, with rawPnl = positionValue * signedPriceChange * leverage
\* and totalFees = positionValue * (|maker_fee| + |taker_fee|).
C3_NetPnlBooked ==
    [][ (position # 0 /\ position' = 0) =>
          LET positionValue == MulDiv(position_size, entry_price, SizeScale)
              signedChange == IF position > 0 THEN tick'.price - entry_price
                              ELSE entry_price - tick'.price
              rawPnl == MulDiv(positionValue, signedChange * Leverage, entry_price)
              totalFees == MulDiv(positionValue, Abs(MakerFee) + Abs(TakerFee), RateScale)
              netPnl == rawPnl - totalFees
          IN  /\ current_capital' = current_capital + netPnl
              /\ total_pnl' = total_pnl + netPnl
              /\ daily_loss' = DailyLossAfterReset + netPnl
              /\ total_fees' = total_fees + totalFees ]_vars

\* C3 witness: a VolumeSurgeStrategy that has settled a winning and a losing position
C3_Witness ==
    /\ cls = "VolumeSurgeStrategy"
    /\ position = 0
    /\ total_trades = 2
    /\ winning_trades = 1
    /\ total_fees > 0

\* C5: once consecutive_losses has reached 3 no tick opens a position, and the streak
\* only ever goes down by a winning close resetting it to 0.
C5_StreakBlocksEntries ==
    [][ /\ consecutive_losses >= 3 => (position = 0 /\ position' = 0)
        /\ consecutive_losses' < consecutive_losses =>
               /\ position # 0 /\ position' = 0
               /\ total_pnl' > total_pnl
               /\ consecutive_losses' = 0 ]_vars

\* C5 witness: after three losses in a row an OptimizedBreakoutStrategy received a tick
\* with a full entry signal that neither the daily loss limit nor the model's trade
\* bound would have stopped, and it stayed flat
C5_Witness ==
    /\ cls = "OptimizedBreakoutStrategy"
    /\ consecutive_losses = 3
    /\ tick.signal # "NONE"
    /\ daily_loss > -BreakoutMaxDailyLoss
    /\ current_capital > 0
    /\ total_trades < BreakoutMaxTrades
    /\ position = 0

\* a tick that offers a flat VolumeSurgeStrategy an entry which the daily loss limit
\* does not stop: a volume surge on a price move, the day's loss below the limit
SurgeOffered ==
    /\ SurgeUpdate
    /\ position = 0
    /\ tick'.is_surge
    /\ tick'.price # prev_price
    /\ Abs(DailyLossAfterReset) < SurgeMaxDailyLoss

\* C6: the loss-streak suspension is temporary: a flat instance with capital left whose
\* entries are suspended by consecutive_losses >= 3 (and that the model's trade bound
\* does not stop) opens a position again if the feed offers entries again and again.
C6_SuspensionEnds ==
    []<><<SurgeOffered>>_vars =>
        ( ( /\ position = 0
            /\ consecutive_losses >= 3
            /\ current_capital > 0
            /\ total_trades < SurgeMaxTrades )
          ~> (position # 0) )

\* the move of the tick being processed is an entry signal of VolumeSurgeStrategy
SurgeSignalled ==
    /\ tick'.is_surge
    /\ price_len' >= SurgeWarmup
    /\ SurgeDirection([Self EXCEPT !.price_len = price_len'], tick'.price) # "NONE"

\* C7: a signalled entry of a flat instance with positive capital is refused exactly when
\* daily_loss <= -max_daily_loss or consecutive_losses >= 3, and is otherwise opened.
C7_RiskGateExact ==
    [][ ( /\ cls = "VolumeSurgeStrategy"
          /\ position = 0
          /\ current_capital > 0
          /\ total_trades < SurgeMaxTrades
          /\ SurgeSignalled )
        => ( (position' = 0) <=>
                 (DailyLossAfterReset <= -SurgeMaxDailyLoss \/ consecutive_losses >= 3) ) ]_vars

\* C1: a position is opened only from FLAT; while one is open, entry signals
\* are ignored and its side, entry price and size stay as they are until it
\* is settled; a tick adds at most one trade to the ledger, and only when it
\* opens a position.
C1_PositionExclusive ==
    [][ /\ position # 0 =>
            \/ position' = 0
            \/ /\ position' = position
               /\ entry_price' = entry_price
               /\ position_size' = position_size
               /\ trades' = trades
        /\ position' \in {-1, 0, 1}
        /\ Len(trades') \in {Len(trades), Len(trades) + 1}
        /\ Len(trades') = Len(trades) + 1 => (position = 0 /\ position' # 0) ]_vars

\* an entry signal arrived at another price while a position was open, and the position stayed
C1_Witness ==
    /\ position # 0
    /\ tick.signal # "NONE"
    /\ tick.price # entry_price

\* the trailing boundary of a long position, times 100 * PctScale
BidirLongBoundary(highest) == highest * (100 * PctScale - BidirTrailingStopPct)

\* the trailing boundary of a short position, times 100 * PctScale
BidirShortBoundary(lowest) == lowest * (100 * PctScale + BidirTrailingStopPct)

\* C9: the exit reason written to the ledger is the first condition that holds
\* in the order profit target, stop loss, trailing stop, signal reversal.
C9_ExitReasonPrecedence ==
    [][ (position # 0 /\ position' = 0) =>
            LET tr == trades'[Len(trades')]
                d == IF position = 1 THEN tr.exit_price - entry_price
                     ELSE entry_price - tr.exit_price
                profit == d * 100 * PctScale >= BidirMinProfitPct * entry_price
                loss == d * 100 * PctScale <= BidirMaxLossPct * entry_price
                trailing ==
                    IF position = 1
                    THEN tr.exit_price * 100 * PctScale <= BidirLongBoundary(highest_price')
                    ELSE tr.exit_price * 100 * PctScale >= BidirShortBoundary(lowest_price')
            IN  tr.exit_reason =
                    IF profit THEN "Profit Target"
                    ELSE IF loss THEN "Stop Loss"
                    ELSE IF trailing THEN "Trailing Stop"
                    ELSE "Signal Reversal" ]_vars

\* C10: the extreme of an open position starts at its entry price and only
\* moves in the favourable direction while the position is held: the highest
\* price of a long and its trailing boundary never fall, the lowest price of a
\* short and its boundary never rise.
C10_TrailingMonotone ==
    [][ /\ (position = 0 /\ position' = 1) => highest_price' = entry_price'
        /\ (position = 0 /\ position' = -1) => lowest_price' = entry_price'
        /\ position = 1 =>
              /\ highest_price' >= highest_price
              /\ highest_price' >= tick'.price
              /\ BidirLongBoundary(highest_price') >= BidirLongBoundary(highest_price)
        /\ position = -1 =>
              /\ lowest_price' <= lowest_price
              /\ lowest_price' <= tick'.price
              /\ BidirShortBoundary(lowest_price') <= BidirShortBoundary(lowest_price) ]_vars

\* a long position whose peak is above its entry price is held after the price fell back
C10_Witness ==
    /\ cls = "BidirectionalStrategy"
    /\ position = 1
    /\ highest_price > entry_price
    /\ tick.price < highest_price

\* the trades of the ledger that have no exit fields
Unresolved == {i \in DOMAIN trades : ~Closed(trades[i])}

\* C2: a position is held if and only if the ledger has exactly one trade
\* without exit fields, and that trade is the last entry of the ledger.
C2_LedgerMatchesPosition ==
    (position # 0) <=> (Unresolved = {Len(trades)} /\ trades # <<>>)

\* C4: every settlement changes the capital by the raw PnL less both the
\* entry (maker) fee and the exit (taker) fee on the position size.
C4_BothFeesDeducted ==
    [][ (position # 0 /\ position' = 0) =>
            LET tr == trades'[Len(trades')]
                d == IF position = 1 THEN tr.exit_price - entry_price
                     ELSE entry_price - tr.exit_price
                rawPnl == IF d >= 0 THEN MulDiv(tr.size, d, entry_price)
                          ELSE -MulDiv(tr.size, -d, entry_price)
            IN  portfolio_value' - portfolio_value =
                    rawPnl - TrendCalculateFees(tr.size, TRUE)
                           - TrendCalculateFees(tr.size, FALSE) ]_vars

\* C8: no position is ever open with position_size 0: an entry whose sizing
\* returned 0 opens nothing.
C8_NoEmptyPosition == position # 0 => position_size > 0

\* C11: an open LONG is closed on the tick whose price is at or below the
\* highest price seen since entry times (1 - trailing_stop_pct/100), an open
\* SHORT on the tick whose price is at or above the lowest price seen since
\* entry times (1 + trailing_stop_pct/100); so the first such tick closes it.
C11_TrailingStopCloses ==
    [][ /\ (position = 1
            /\ tick'.price * 100 * PctScale
                 <= BidirLongBoundary(Max(highest_price, tick'.price)))
           => position' = 0
        /\ (position = -1
            /\ tick'.price * 100 * PctScale
                 >= BidirShortBoundary(Min(lowest_price, tick'.price)))
           => position' = 0 ]_vars

\* a LONG that had gained was closed by the trailing stop alone, above its stop loss
C11_Witness ==
    /\ cls = "BidirectionalStrategy"
    /\ position = 0
    /\ trades # <<>>
    /\ Closed(trades[Len(trades)])
    /\ trades[Len(trades)].type = "LONG"
    /\ trades[Len(trades)].exit_reason = "Trailing Stop"
    /\ highest_price > trades[Len(trades)].entry_price
    /\ trades[Len(trades)].exit_price >= trades[Len(trades)].entry_price

\* C12: daily_loss is set to 0 on the first tick of every new calendar date:
\* after a tick on which the date changed it holds just the net PnL settled
\* by that tick; on a tick of the same date it changes only by the net PnL
\* settled by that tick.
C12_DailyResetOncePerDay ==
    [][ daily_loss' = (IF Date(now') # Date(now) THEN 0 ELSE daily_loss)
                      + (total_pnl' - total_pnl) ]_vars

\* C16: every step from OPEN to FLAT records exactly one settled trade.
C16_EveryCloseIsRecorded ==
    [][ (position # 0 /\ position' = 0) => total_trades' = total_trades + 1 ]_vars

\* C13: a daily reset never erases a net PnL that was settled on the current
\* calendar day: right after a reset daily_loss is the sum of the net PnL of
\* the settlements of that day.
C13_ResetKeepsTodaysPnl ==
    [][ last_reset_day' # last_reset_day => daily_loss' = day_pnl'.pnl ]_vars

\* what a tick did to the position and the books
Outcome(s) ==
    <<s.position, s.position_size, s.entry_price, s.total_trades, s.total_pnl, s.daily_loss>>

\* C14: what a tick does to an instance does not depend on the wall-clock
\* time at which it is processed, so equal tick sequences give equal entries,
\* exits and settled PnL.
C14_ClockIndependent ==
    cls = "MACDVolumeStrategy" =>
        \A price \in MACDPrices, macd_rel \in MACDRels, volume_condition \in BOOLEAN :
            \A dt1, dt2 \in MACDClockSteps :
                Outcome(MACDUpdateResult(Self, price, macd_rel, volume_condition, now + dt1))
                  = Outcome(MACDUpdateResult(Self, price, macd_rel, volume_condition, now + dt2))


\* C15: a call of close_position on an open position leaves the instance flat
\* (position = 0 and position_size = 0), whichever statement of the settlement
\* raised; this holds for the calls made by update() and for direct calls.
C15_CloseAlwaysFlat ==
    [][ /\ (position # 0 /\ "fault" \in DOMAIN tick' /\ calls' # calls) =>
                (position' = 0 /\ position_size' = 0)
        /\ (position # 0 /\ total_trades' # total_trades) =>
                (position' = 0 /\ position_size' = 0) ]_vars

\* a direct call whose settlement raised has closed an open position
C15_Witness ==
    /\ "fault" \in DOMAIN tick
    /\ tick.fault # "none"
    /\ position = 0
    /\ position_size = 0
    /\ entry_price # 0


\* C17: whenever the instance is flat its other position fields are zeroed:
\* position = 0 implies entry_price = 0 and position_size = 0.
C17_FlatMeansZeroed == position = 0 => (entry_price = 0 /\ position_size = 0)


\* C18: an instance that has observed fewer ticks than its warm-up count
\* (lookback_period for the order-block strategy) is flat and has closed no trade.
C18_NoEntryBeforeWarmup ==
    (cls = "OrderBlockStrategy" /\ price_len < OBLookbackPeriod) =>
        (position = 0 /\ total_trades = 0)


\* C19: a message of the feed makes one call of every registered callback for
\* each of its well-formed trades, in feed order and in registration order,
\* whatever the calls do.
C19_EveryHandlerInvoked ==
    [][ (tick'.op = "on_message" /\ calls' # calls) =>
            LET pairs == ClientPairs(tick'.message, 1, callbacks)
            IN  calls' = calls \o [j \in 1..Len(pairs) |->
                                      <<"callback", tick'.n, pairs[j][1], pairs[j][2]>>] ]_vars

\* C20: a poll of run() that finds the sum of the strategies' PnL at or below
\* max_drawdown leaves the loop; every way out of the loop leads to the finally
\* block, which closes the client and then prints the final results, after which
\* run() returns.
C20_DrawdownStopsAndCleansUp ==
    /\ [][ /\ ( /\ pc = "loop"
                /\ tick'.op = "poll"
                /\ (now' # now \/ pc' # pc)
                /\ ManagerSum(book) <= ManagerMaxDrawdown ) => pc' = "finally"
           /\ (pc = "loop" /\ pc' # pc) => pc' = "finally"
           /\ (pc = "finally" /\ pc' # pc) =>
                  (pc' = "closed" /\ calls' = Append(calls, <<"close">>))
           /\ (pc = "closed" /\ pc' # pc) =>
                  (pc' = "done" /\ calls' = Append(calls, <<"print_final_results">>)) ]_vars
    /\ (pc = "finally" ~> pc = "done")

\* run() has returned after a poll found the limit reached before the duration elapsed
C20_Witness ==
    /\ pc = "done"
    /\ now < ManagerDuration
    /\ ManagerSum(book) <= ManagerMaxDrawdown
    /\ Len(calls) >= 2
    /\ calls[Len(calls) - 1] = <<"close">>
    /\ calls[Len(calls)] = <<"print_final_results">>
    /\ \A j \in 1..Len(calls) : calls[j] # <<"print_results">>


\* C21: the end of a session leaves position, entry price, capital and ledger as
\* the last tick left them, and the summary counts as winning, losing or
\* break-even trades the completed trades only, never the open one.
C21_ShutdownSettlesNothing ==
    [][ (pc = "-" /\ pc' = "done") =>
            /\ position' = position
            /\ entry_price' = entry_price
            /\ portfolio_value' = portfolio_value
            /\ trades' = trades
            /\ trades # <<>> =>
                   LET summary == calls'[Len(calls')]
                   IN  summary.winning + summary.losing + summary.break_even =
                           Cardinality({i \in 1..Len(trades) : Closed(trades[i])}) ]_vars


\* C22: no position is opened less than trade_cooldown seconds after the close
\* of the previous position.
C22_CooldownAfterClose ==
    cls = "VolumeStrategy" =>
        \A i \in 2..Len(trades) :
            trades[i].entry_time - trades[i - 1].exit_time >= VolTradeCooldown

\* C23: a tick on which the profit target or the stop loss of the open position
\* is met closes the position, whenever the tick arrives.
C23_ExitCheckedEveryTick ==
    [][ ( /\ cls = "VolumeStrategy"
          /\ position # 0
          /\ <<now, tick, price_len>>' # <<now, tick, price_len>>
          /\ VolTargetOrStop(position, entry_price, tick'.price) ) => position' = 0 ]_vars


\* C24: the capital of an instance is its initial capital plus the net PnL of
\* its settled trades: current_capital - initial_capital = total_pnl.
C24_CapitalIsInitialPlusPnl ==
    cls = "MACDVolumeStrategy" => current_capital - MACDInitialCapital = total_pnl


\* C25: a close increments the loss streak exactly when its net PnL is negative,
\* resets it exactly when its net PnL is positive and leaves it alone when its
\* net PnL is 0; the streak never exceeds 3.
C25_StreakCountsLossesOnly ==
    /\ [][ <<tick, consecutive_losses>>' # <<tick, consecutive_losses>> =>
              consecutive_losses' = (IF tick'.net_pnl < 0 THEN consecutive_losses + 1
                                     ELSE IF tick'.net_pnl > 0 THEN 0
                                     ELSE consecutive_losses) ]_vars
    /\ [](consecutive_losses <= 3)

\* C26: after each settlement of a strategies.BaseStrategy, max_drawdown is the largest
\* fall (running peak - value) / running peak * 100 over the settled capital values,
\* the running peak being the largest of initial_capital and the values settled so
\* far; and max_drawdown never decreases.
C26_MaxDrawdownIsWorstFall ==
    /\ [](LET settled == SelectSeq(trades, LAMBDA tr : "pnl" \in DOMAIN tr)
              value(i) == settled[i].portfolio_value
              upto(i) == {BaseInitialCapital} \cup {value(j) : j \in 1..i}
              running_peak(i) == CHOOSE p \in upto(i) : \A q \in upto(i) : p >= q
              falls == {BaseDrawdown(running_peak(i), value(i)) : i \in 1..Len(settled)}
          IN  cls = "strategies.BaseStrategy" /\ settled # <<>>
                  => max_drawdown = CHOOSE m \in falls : \A f \in falls : m >= f)
    /\ [][max_drawdown' >= max_drawdown]_vars

\* two settlements, the first raised the peak and the second fell from it
C26_Witness ==
    /\ cls = "strategies.BaseStrategy"
    /\ total_trades = 2
    /\ trades[1].portfolio_value > BaseInitialCapital
    /\ trades[2].portfolio_value < trades[1].portfolio_value
    /\ max_drawdown = BaseDrawdown(trades[1].portfolio_value, trades[2].portfolio_value)
    /\ max_drawdown # BaseDrawdown(BaseInitialCapital, trades[2].portfolio_value)

\* C27: the profit-target and stop-loss triggers compare the unleveraged signed price
\* change since entry with the thresholds: a tick of an open RSIBollingerStrategy
\* position whose price change is strictly between stop_loss and profit_target, and
\* whose RSI is no reversal, leaves the position open whatever the leverage is.
C27_TriggersIgnoreLeverage ==
    [][LET d == IF position < 0 THEN entry_price - tick'.price
                ELSE tick'.price - entry_price
       IN  (/\ cls = "RSIBollingerStrategy"
            /\ position # 0
            /\ "rsi" \in DOMAIN tick'
            /\ ~(position > 0 /\ tick'.rsi > RSIBRsiOverbought)
            /\ ~(position < 0 /\ tick'.rsi < RSIBRsiOversold)
            /\ d * RateScale < RSIBProfitTarget * entry_price
            /\ d * RateScale > RSIBStopLoss * entry_price)
           => position' # 0]_vars

\* C28: every trade of every message the feed delivers after the subscription was sent is dispatched
\* to every strategy of the manager: no strategy misses a tick because its callback
\* was not registered yet.
C28_NoTickBeforeRegistration ==
    cls = "StrategyManager" =>
        \A j \in 1..Len(calls) :
            calls[j][1] = "message" =>
                \A i \in 1..Len(calls[j][3]), k \in 1..Len(ManagerStrategies) :
                    calls[j][3][i] = "ok" =>
                        \E h \in 1..Len(calls) :
                            calls[h] = <<"callback", calls[j][2], i, ManagerStrategies[k]>>

\* C29: every metrics snapshot the reporting thread takes while the feed thread
\* processes ticks reflects a whole number of settlements: its capital gain equals
\* its total_pnl, and it counts a settlement exactly if it holds that settlement's fees.
C29_SnapshotIsWholeSettlements ==
    (cls = "RSIBollingerStrategy" /\ "metrics" \in DOMAIN tick) =>
        /\ tick.metrics.current_capital - RSIBInitialCapital = tick.metrics.total_pnl
        /\ (tick.metrics.total_trades = 0) = (tick.metrics.total_fees = 0)

\* C30: whenever the average loss over the RSI window is zero, a window without any
\* price change included, the RSI that calculate_rsi returns is 100.
C30_ZeroLossGivesHundred ==
    (cls = "MomentumStrategy" /\ "rsi" \in DOMAIN tick /\ MomentumAvgLoss(tick.window) = 0)
        => tick.rsi = 100 * PctScale

\* C31: update_volume_profile raises no error on any full window, gives every price
\* of the window a bucket index in 0..price_levels-1, the bucket volumes add up to the
\* window's volume, and poc_price is the lower edge of a bucket of maximal volume.
C31_ProfileHasPriceLevelsBuckets ==
    (cls = "VolumeProfileStrategy" /\ "result" \in DOMAIN tick) =>
        LET r == tick.result
            w == tick.window
        IN  /\ r.raised = ""
            /\ \A j \in 1..Len(r.volume_profile) :
                    r.volume_profile[j][1] \in 0..(ProfileLevels - 1)
            /\ ProfileTotal(r.volume_profile) = ProfileTotal(w)
            /\ \E j \in 1..Len(r.volume_profile) :
                    /\ r.volume_profile[j][1] = r.poc_level
                    /\ \A h \in 1..Len(r.volume_profile) :
                            r.volume_profile[j][2] >= r.volume_profile[h][2]

\* C32: the value area of update_volume_profile is a contiguous range of buckets that
\* contains the point-of-control bucket and holds at least 70 % of the window's
\* volume, and no contiguous range of fewer buckets holds at least 70 % of it.
C32_ValueAreaIsMinimal ==
    (cls = "VolumeProfileStrategy" /\ "result" \in DOMAIN tick /\ tick.result.raised = "") =>
        LET r == tick.result
            held(a, b) == ProfileTotal(SelectSeq(r.volume_profile,
                                                 LAMBDA item : a <= item[1] /\ item[1] <= b))
            enough(a, b) == held(a, b) * 10 >= ProfileTotal(r.volume_profile) * 7
            lo == r.value_area_levels[1]
            hi == r.value_area_levels[2]
        IN  /\ lo <= r.poc_level /\ r.poc_level <= hi
            /\ enough(lo, hi)
            /\ \A a \in 0..ProfileLevels, b \in 0..ProfileLevels :
                    (a <= b /\ b - a < hi - lo) => ~enough(a, b)

\* C33: group_levels returns levels in strictly ascending order, each between the
\* smallest and the largest input level, every two consecutive ones more than the
\* threshold apart in relative distance; grouping its own output changes nothing, and
\* the empty input gives the empty output.
C33_GroupLevelsSeparatesAndIsIdempotent ==
    (cls = "SupportResistanceStrategy" /\ "grouped" \in DOMAIN tick) =>
        LET levels == tick.levels
            grouped == tick.grouped
        IN  /\ \A j \in 1..(Len(grouped) - 1) :
                    /\ grouped[j] < grouped[j + 1]
                    /\ (grouped[j + 1] - grouped[j]) * RateScale > GroupThreshold * grouped[j]
            /\ \A j \in 1..Len(grouped) :
                    /\ \E h \in 1..Len(levels) : levels[h] <= grouped[j]
                    /\ \E h \in 1..Len(levels) : levels[h] >= grouped[j]
            /\ GroupLevels(grouped, GroupThreshold) = grouped
            /\ levels = <<>> => grouped = <<>>

\* three different levels, two of which were merged into one
C33_Witness ==
    /\ cls = "SupportResistanceStrategy"
    /\ "grouped" \in DOMAIN tick
    /\ Len(tick.levels) = 3
    /\ Len(tick.grouped) = 2
    /\ \A j \in 1..2 : tick.levels[j] > tick.levels[j + 1]
    /\ \E j \in 1..2 : \A h \in 1..3 : tick.grouped[j] # tick.levels[h]

\* C34: a MegaTrendStrategy opens a position only on a tick that is at least the
\* third of an unbroken run of ticks that each passed the cooldown check, had
\* trend_strength >= 80 and had the EMAs aligned.
C34_EntryNeedsUnbrokenRun ==
    [][(cls = "MegaTrendStrategy" /\ position = 0 /\ position' # 0)
           => tick'.run >= MegaSignalsNeeded]_vars

\* C35: after an execute_trade call of a strategies.BaseStrategy with signal != 0 made
\* while flat, a position is open and its side is the sign of the signal, whatever
\* portfolio_value earlier settlements have left.
C35_EntrySideIsSignalSign ==
    [][(/\ cls = "strategies.BaseStrategy"
        /\ position = 0
        /\ Len(trades) < BaseMaxTrades
        /\ tick'.signal # 0)
           => /\ tick'.signal > 0 => position' > 0
              /\ tick'.signal < 0 => position' < 0]_vars

\* C36: the capital of an instance (current_capital, portfolio_value) is never
\* negative, and an open position of a class that keeps position_size has
\* position_size > 0, also when the price jumps past the stop between two ticks.
C36_CapitalNeverNegative ==
    /\ current_capital >= 0
    /\ portfolio_value >= 0
    /\ (cls = "OptimizedBreakoutStrategy" /\ position # 0) => position_size > 0

\* C37: HyperliquidAPI passes each candle to strategy.execute_trade once and in time
\* order: the candles of the execute_trade calls made so far are strictly increasing.
C37_EachCandleOnce ==
    cls = "HyperliquidAPI" =>
        \A i \in 1..Len(calls), j \in 1..Len(calls) :
            (i < j /\ calls[i][1] = "execute_trade" /\ calls[j][1] = "execute_trade")
                => calls[i][2] < calls[j][2]

\* C38: the entry price recorded for a position is the price of the tick on which
\* the entry signal fired (a fill at the observed tick price).
C38_EntryAtTickPrice ==
    [][(cls = "MACDVolumeStrategy" /\ position = 0 /\ position' # 0)
           => entry_price' = tick'.price]_vars

\* C39: HyperliquidClient.connect() terminates, also when the connection attempt
\* fails before on_open fires: a call that is waiting eventually returns.
C39_ConnectReturns == (pc = "connect") ~> (pc # "connect")

====
